---- MODULE Spec2Model ----
(***************************************************************************)
(* Group.Go of github.com/oatcatx/group: one call of Group.Go on a built   *)
(* dependency graph, run on an errgroup with a concurrency limit.          *)
(*                                                                         *)
(* The graph and the node and group options are fixed by Init (the state   *)
(* after the builder calls).  Caller-supplied closures (task bodies, pre,  *)
(* after and rollback hooks, the group Pre/After interceptors) are inputs: *)
(* whether a hook is installed and what a call returns is drawn with \E at *)
(* the step that calls it.                                                 *)
(*                                                                         *)
(* The builder calls (AddRunner, AddNode, Key, Dep, WeakDep) and Verify    *)
(* are modelled on the Group under construction, g; the Storer of the ctx  *)
(* (Store and Fetch in the task bodies) on the variables store and         *)
(* fetched.                                                                *)
(*                                                                         *)
(* Further specifications follow the flat TryGo (flat), two concurrent Go  *)
(* calls on one group (goCalls), one Go call with the accesses of          *)
(* groupErrs and of the rollback tracker as separate steps (fine), Go on   *)
(* groups with a dependency cycle, and the copy-on-write mapStore (cow).   *)
(***************************************************************************)
EXTENDS Integers, Sequences, FiniteSets, TLC

\* ---------------------------------------------------------------- bounds
NumNodes == 3
MaxRetry == 1
MaxLimit == 2
NumKeys == 3
MaxEdges == 3
MaxFuncs == 3
MaxStores == 2

Nodes == 1..NumNodes

VARIABLES
    \* the built group (read-only during Go)
    deps,        \* deps[n]: indices n depends on, strong and weak, in declaration order
    to,          \* to[n]: successors of n, strong and weak
    weakTo,      \* weakTo[n]: successors that declared n by WeakDep
    key,         \* key[n]: TRUE when n.key != nil
    ff,          \* ff[n]: fast-fail flag
    retry,       \* retry[n]: number of retries
    timeout,     \* timeout[n]: TRUE when n.timeout > 0
    rollback,    \* rollback[n]: TRUE when n.rollback != nil
    pre,         \* pre[n]: TRUE when n.pre != nil
    after,       \* after[n]: TRUE when n.after != nil
    Pre,         \* TRUE when g.Pre != nil
    After,       \* TRUE when g.After != nil
    Limit,       \* g.Limit (0: not configured)
    Timeout,     \* TRUE when g.Timeout > 0
    panics,      \* TRUE when the task bodies may panic
    storer,      \* TRUE when the ctx given to Go carries a Storer (WithStore)
    nilValues,   \* TRUE when the task bodies store nil interface values
    \* the builder
    g,           \* the Group under construction: [nodes, idxMap, x]
    panicked,    \* TRUE when a builder call has panicked
    verifyMsg,   \* the last result of Verify(false): [called, path]
    \* one Go call
    mainPc,      \* position of the goroutine that called Go
    rootIdx,     \* position of the root dispatch loop of exec
    ctxDone,     \* what cancelled the ctx the workers see: "no" (not cancelled),
                 \* "parent", "errgroup" (first error, or Wait), "deadline"
    egErr,       \* errgroup's first error (what eg.Wait returns)
    indegree,    \* indegree[n]: uint32 counter
    groupErrs,   \* groupErrs[n]: recorded (wrapped) error of n
    tracker,     \* rollbackTracker: [on, order, cnt]
    err,         \* the named result err of Go
    leafErr,     \* err as it stands before the rollback phase and After
    rolled,      \* nodes whose rollback hook was invoked, in call order
    rbFailed,    \* nodes whose rollback hook returned an error
    \* the worker of node n (the func handed to eg.Go)
    pc,          \* position of n's worker
    nidx,        \* position of n's worker in its notify loop
    \* the execution of n's execF (pre wrapper, retry wrapper, task body)
    body,        \* "idle", "running", "done"
    bodyErr,     \* what execF returned
    left,        \* attempts the retry loop has left
    \* history
    runs,        \* runs[n]: number of times n's task body was started
    timedOut,    \* timedOut[n]: n's worker took the node-timeout branch
    ffOrder,     \* fast-fail nodes whose worker returned its error, in order
    preCalls,    \* preCalls[n]: calls of n.pre
    afterCalls,  \* afterCalls[n]: calls of n.after
    afterArg,    \* afterArg[n]: the err n.after was last called with
    AfterCalls,  \* calls of g.After
    results,     \* results[n]: how the attempts of n's task body ended, in order
    \* the Storer of the ctx
    store,       \* store[n]: the value held under the key of node n
    fetched,     \* fetched[n]: what the Fetch calls of n's task body returned
    sent,        \* sent[n]: store[n] as it was when n's worker completed with success
    \* one call of the flat executor
    flat,        \* the state of one TryGo(ctx, opts, fs...) call
    \* two Go calls on one group
    goCalls,     \* goCalls[c]: the state of Go call c
    \* one Go call, slot by slot
    fine,        \* the state of a Go call with the slot accesses as separate steps
    \* the copy-on-write map store
    cow          \* the state of one mapStore, its writers and its reader

optVars == <<deps, to, weakTo, key, ff, retry, timeout, rollback, pre, after,
             Limit, Timeout, Pre, After, panics, storer, nilValues>>
builderVars == <<g, panicked, verifyMsg>>
otherVars == <<flat, goCalls, fine, cow>>
cfgVars == <<optVars, builderVars, otherVars>>
mainVars == <<mainPc, rootIdx, err, leafErr, rolled, rbFailed>>
ctxVars == <<ctxDone, egErr>>
execVars == <<indegree, groupErrs, tracker>>
workerVars == <<pc, nidx>>
bodyVars == <<body, bodyErr, left, runs>>
histVars == <<timedOut, ffOrder, preCalls, afterCalls, afterArg, AfterCalls,
              results>>
storeVars == <<store, fetched, sent>>
vars == <<cfgVars, mainVars, ctxVars, execVars, workerVars, bodyVars, histVars, storeVars>>

\* ---------------------------------------------------------------- errors
\* error values: nil, a plain error, a *groupError, an errors.Join result
Nil == [tag |-> "nil"]
Plain(kind, n) == [tag |-> "plain", kind |-> kind, n |-> n]
Canceled == Plain("context canceled", 0)
DeadlineExceeded == Plain("context deadline exceeded", 0)
TaskErr(n, k) == [tag |-> "plain", kind |-> "task", n |-> n, k |-> k]
\* var ErrPanic = errors.New("panic recovered")
ErrPanic == Plain("panic recovered", 0)
\* the value a task body or a pre hook of node n panics with, as an error
PanicValue(n) == Plain("panic value", n)
\* a recovery that returns the panic value alone
RecoverCtxErr_bare(panicErr) == panicErr
\* RecoverCtxErr: fmt.Errorf("%w at %s: %w", ErrPanic, loc, panicErr)
RecoverCtxErr(panicErr) == [tag |-> "join", errs |-> <<ErrPanic, panicErr>>]
\* what SafeRunNode returns when execF of node n panicked
PanicErr(n) == RecoverCtxErr(PanicValue(n))
PreErr(n) == Plain("pre", n)
AfterErr(n) == Plain("after", n)
NodeTimeoutErr(n) == Plain("node timeout", n)
GroupTimeoutErr == Plain("group timeout", 0)
GroupPreErr == Plain("group pre", 0)
GroupAfterErr == Plain("group after", 0)
RollbackHookErr(n) == Plain("rollback", n)
\* fmt.Errorf("rollback %v failed: %w", n.key, err)
RollbackErr(n) == [tag |-> "wrap", kind |-> "rollback failed", n |-> n, err |-> RollbackHookErr(n)]

GroupError(e, upstreams) == [tag |-> "group", err |-> e, upstreams |-> upstreams]

\* errors.Join: nil when every argument is nil, else the non-nil ones in order
RECURSIVE NonNil(_)
NonNil(es) ==
    IF es = <<>> THEN <<>>
    ELSE IF Head(es) = Nil THEN NonNil(Tail(es))
    ELSE <<Head(es)>> \o NonNil(Tail(es))

Join(es) ==
    IF NonNil(es) = <<>> THEN Nil ELSE [tag |-> "join", errs |-> NonNil(es)]

\* (*groupError).Unwrap, (*joinError).Unwrap
Unwrap(e) ==
    IF e.tag = "group" THEN <<e.err>> \o e.upstreams
    ELSE IF e.tag = "join" THEN e.errs
    ELSE IF e.tag = "wrap" THEN <<e.err>>
    ELSE <<>>

\* a piece of a printed error: a separator written by (*groupError).Error
Tok(s) == [tok |-> s]

\* the upstream messages with " | " between them
RECURSIVE Bars(_)
Bars(msgs) ==
    IF Len(msgs) = 1 THEN Head(msgs)
    ELSE Head(msgs) \o <<Tok(" | ")>> \o Bars(Tail(msgs))

\* an Error that prints one upstream in brackets as well
RECURSIVE Error_brackets(_)
Error_brackets(e) ==
    IF e.tag # "group" THEN <<e>>
    ELSE Error_brackets(e.err) \o <<Tok(" <- [")>>
         \o Bars([i \in 1..Len(e.upstreams) |-> Error_brackets(e.upstreams[i])])
         \o <<Tok("]")>>

\* (*groupError).Error: the printed form, as the sequence of its pieces; the
\* message of an error of any other type is one piece, the error itself
RECURSIVE Error(_)
Error(e) ==
    IF e.tag # "group" THEN <<e>>
    ELSE IF Len(e.upstreams) = 0 THEN Error(e.err)
    ELSE IF Len(e.upstreams) = 1
         THEN Error(e.err) \o <<Tok(" <- ")>> \o Error(e.upstreams[1])
    ELSE Error(e.err) \o <<Tok(" <- [")>>
         \o Bars([i \in 1..Len(e.upstreams) |-> Error(e.upstreams[i])])
         \o <<Tok("]")>>

\* errors.Is(e, target): target is e or is in the unwrap tree of e
RECURSIVE Is(_, _)
Is(e, target) ==
    \/ e = target
    \/ \E i \in 1..Len(Unwrap(e)) : Is(Unwrap(e)[i], target)

\* ---------------------------------------------------------------- helpers
RECURSIVE SortedSeq(_)
SortedSeq(S) ==
    IF S = {} THEN <<>>
    ELSE LET m == CHOOSE x \in S : \A y \in S : x <= y
         IN <<m>> \o SortedSeq(S \ {m})

Range(s) == {s[i] : i \in 1..Len(s)}

\* a wrapError that folds nothing in
wrapError_bare(n, e, gErrs) == e

\* a wrapError that keeps the first failed dependency only
wrapError_first(n, e, gErrs) ==
    IF Len(deps[n]) = 0 THEN e
    ELSE LET upstreamErrs == NonNil([i \in 1..Len(deps[n]) |-> gErrs[deps[n][i]]])
         IN IF Len(upstreamErrs) = 0 THEN e ELSE GroupError(e, <<Head(upstreamErrs)>>)

\* wrapError(n, err, groupErrs)
wrapError(n, e, gErrs) ==
    IF Len(deps[n]) = 0 THEN e
    ELSE LET upstreamErrs == NonNil([i \in 1..Len(deps[n]) |-> gErrs[deps[n][i]]])
         IN IF Len(upstreamErrs) = 0 THEN e ELSE GroupError(e, upstreamErrs)

\* a leafError that collects every recorded error
leafError_all(gErrs) ==
    LET errs == NonNil([n \in Nodes |-> gErrs[n]])
    IN IF Len(errs) = 0 THEN Nil ELSE IF Len(errs) = 1 THEN errs[1] ELSE Join(errs)

\* leafError(nodes, groupErrs)
leafError(gErrs) ==
    LET leaf(n) == /\ gErrs[n] # Nil
                   /\ \A i \in 1..Len(to[n]) : gErrs[to[n][i]] = Nil
        leafErrs == NonNil([n \in Nodes |-> IF leaf(n) THEN gErrs[n] ELSE Nil])
    IN IF Len(leafErrs) = 0 THEN Nil
       ELSE IF Len(leafErrs) = 1 THEN leafErrs[1]
       ELSE Join(leafErrs)

\* a default limit of one slot
limit_one == IF Limit > 0 THEN Limit ELSE 1

\* limit := len(g.nodes); if g.Limit > 0 { limit = g.Limit }
limit == IF Limit > 0 THEN Limit ELSE NumNodes

\* workers that hold a slot of the errgroup's semaphore
Active == {n \in Nodes : pc[n] \in {"entry", "exec", "notify", "spawn"}}

\* an errgroup without limit
CanSubmit_free == TRUE

\* eg.Go blocks until the semaphore has room
CanSubmit == Cardinality(Active) < limit

\* a task body is in progress
Running(n) == body[n] = "running"

\* atomic.AddUint32(&x, ^uint32(0)): x - 1 in uint32 arithmetic.  A counter at 0
\* wraps to 2^32 - 1, written Wrapped here (TLC's integers are 32 bits wide).
Wrapped == -1

\* a decrement that leaves the counter as it is
Dec32_same(x) == x

Dec32(x) == IF x = 0 THEN Wrapped ELSE x - 1


\* a ctx whose error is always the deadline's
CtxErr_deadline == DeadlineExceeded

\* ctx.Err()
CtxErr == IF ctxDone = "deadline" THEN DeadlineExceeded ELSE Canceled

\* a ctx that nothing cancels
Cancel_never(cause) == ctxDone

\* cancelling a ctx that is already cancelled changes nothing
Cancel(cause) == IF ctxDone = "no" THEN cause ELSE ctxDone

\* ---------------------------------------------------------------- Init
\* The builder: every node declares its dependencies on nodes added before it, in
\* index order, by Dep or WeakDep; to and weakTo are what Dep/WeakDep append.
Edges == {e \in Nodes \X Nodes : e[2] < e[1]}
EdgeKinds == {"none", "dep", "weak"}

Built(kind) ==
    /\ deps = [n \in Nodes |-> SortedSeq({m \in Nodes : m < n /\ kind[<<n, m>>] # "none"})]
    /\ to = [m \in Nodes |-> SortedSeq({n \in Nodes : m < n /\ kind[<<n, m>>] # "none"})]
    /\ weakTo = [m \in Nodes |-> SortedSeq({n \in Nodes : m < n /\ kind[<<n, m>>] = "weak"})]
    /\ key = [n \in Nodes |-> to[n] # <<>>]

\* node keys: 0 is the nil key
Keys == 0..NumKeys
\* idxMap[k] of a key that is not in the map
NoIdx == -1

\* NewGroup(): no nodes, an empty idxMap, x = 0
NewGroup == [nodes |-> <<>>, idxMap |-> [k \in Keys |-> NoIdx], x |-> 0]

NotVerified == [called |-> FALSE, path |-> <<>>]

\* a Go call that has not taken its first step
\* The values of the Storer.  A task body stores one value per attempt; Value(k)
\* is the value attempt k stores when it is not a nil interface value,
\* NilValue(k) the nil interface value stored by attempt k (Store[error](ctx, nil)),
\* NoValue stands for a key the Storer does not hold, Zero for the zero value
\* Fetch returns with ok = false.
Value(k) == [k |-> k, nil |-> FALSE]
NilValue(k) == [k |-> k, nil |-> TRUE]
NoValue == [k |-> 0, nil |-> TRUE]
Zero == [k |-> 0, nil |-> FALSE]

\* the state of one Go call before Go is called, on a new group
InitCall ==
    /\ g = NewGroup
    /\ panicked = FALSE
    /\ verifyMsg = NotVerified
    /\ mainPc = "start"
    /\ rootIdx = 0
    /\ ctxDone = "no"
    /\ egErr = Nil
    /\ indegree = [n \in Nodes |-> 0]
    /\ groupErrs = [n \in Nodes |-> Nil]
    /\ tracker = [on |-> FALSE, order |-> <<>>, cnt |-> 0]
    /\ err = Nil
    /\ leafErr = Nil
    /\ rolled = <<>>
    /\ rbFailed = {}
    /\ pc = [n \in Nodes |-> "idle"]
    /\ nidx = [n \in Nodes |-> 0]
    /\ body = [n \in Nodes |-> "idle"]
    /\ bodyErr = [n \in Nodes |-> Nil]
    /\ left = [n \in Nodes |-> 0]
    /\ runs = [n \in Nodes |-> 0]
    /\ timedOut = [n \in Nodes |-> FALSE]
    /\ ffOrder = <<>>
    /\ preCalls = [n \in Nodes |-> 0]
    /\ afterCalls = [n \in Nodes |-> 0]
    /\ afterArg = [n \in Nodes |-> Nil]
    /\ AfterCalls = 0
    /\ results = [n \in Nodes |-> <<>>]
    /\ store = [n \in Nodes |-> NoValue]
    /\ fetched = [n \in Nodes |-> {}]
    /\ sent = [n \in Nodes |-> NoValue]

\* TryGo is not called
NoFlat == [pc |-> "none"]
FlatIdle == flat = NoFlat

\* no second Go call
CallsIdle == goCalls = <<>>

\* no Go call followed slot by slot
FineIdle == fine = <<>>

\* no mapStore
CowIdle == cow = <<>>

InitRun ==
    /\ InitCall
    /\ FlatIdle
    /\ CallsIdle
    /\ FineIdle
    /\ CowIdle

None == [n \in Nodes |-> FALSE]
All == [n \in Nodes |-> TRUE]

\* A per-node option is set on every node or on none.  A hook that is installed
\* may return what it was given and a timeout that is set may never fire, so the
\* runs of a group that sets the option on some nodes only are among the runs of
\* the group that sets it on all.
Uniform == {None, All}
Retries == {[n \in Nodes |-> r] : r \in 0..MaxRetry}

Graphs == \E kind \in [Edges -> EdgeKinds] : Built(kind)

\* groups without concurrency limit, group timeout and group interceptors, whose
\* nodes may be fast-fail, may have a timeout and may have an after hook
Init ==
    /\ Graphs
    /\ ff \in Uniform
    /\ timeout \in Uniform
    /\ after \in Uniform
    /\ pre = None
    /\ retry = [n \in Nodes |-> 0]
    /\ rollback = None
    /\ Limit = 0
    /\ Timeout = FALSE
    /\ Pre = FALSE
    /\ After = FALSE
    /\ panics = FALSE
    /\ storer = FALSE
    /\ nilValues = FALSE
    /\ InitRun

\* groups with a concurrency limit, whose nodes may have a timeout and retries
InitLimit ==
    /\ Graphs
    /\ ff = None
    /\ timeout \in Uniform
    /\ after = None
    /\ pre = None
    /\ retry \in Retries
    /\ rollback = None
    /\ Limit \in 0..MaxLimit
    /\ Timeout = FALSE
    /\ Pre = FALSE
    /\ After = FALSE
    /\ panics = FALSE
    /\ storer = FALSE
    /\ nilValues = FALSE
    /\ InitRun

\* groups whose nodes have pre, after and rollback hooks and retries, with group
\* interceptors
InitHooks ==
    /\ Graphs
    /\ ff = None
    /\ timeout = None
    /\ after = All
    /\ pre = All
    /\ retry \in Retries
    /\ rollback = All
    /\ Limit = 0
    /\ Timeout = FALSE
    /\ Pre = TRUE
    /\ After = TRUE
    /\ panics = FALSE
    /\ storer = FALSE
    /\ nilValues = FALSE
    /\ InitRun

\* groups whose nodes have retries and pre hooks and may have after hooks, with
\* task bodies that may panic
InitRetry ==
    /\ Graphs
    /\ ff = None
    /\ timeout = None
    /\ after \in Uniform
    /\ pre = All
    /\ retry \in Retries
    /\ rollback = None
    /\ Limit = 0
    /\ Timeout = FALSE
    /\ Pre = FALSE
    /\ After = FALSE
    /\ panics = TRUE
    /\ storer = FALSE
    /\ nilValues = FALSE
    /\ InitRun

\* groups with fast-fail nodes and a group timeout, run on a ctx that its owner
\* may cancel
InitCancel ==
    /\ Graphs
    /\ ff \in [Nodes -> BOOLEAN]
    /\ timeout = None
    /\ after = None
    /\ pre = None
    /\ retry = [n \in Nodes |-> 0]
    /\ rollback = None
    /\ Limit = 0
    /\ Timeout \in BOOLEAN
    /\ Pre = FALSE
    /\ After = FALSE
    /\ panics = FALSE
    /\ storer = FALSE
    /\ nilValues = FALSE
    /\ InitRun

\* groups with a group timeout and group interceptors, whose nodes may be
\* fast-fail, may have pre hooks and may declare rollbacks
InitRollback ==
    /\ Graphs
    /\ ff \in Uniform
    /\ timeout = None
    /\ after = None
    /\ pre \in Uniform
    /\ retry = [n \in Nodes |-> 0]
    /\ rollback \in [Nodes -> BOOLEAN]
    /\ Limit = 0
    /\ Timeout \in BOOLEAN
    /\ Pre = TRUE
    /\ After = TRUE
    /\ panics = FALSE
    /\ storer = FALSE
    /\ nilValues = FALSE
    /\ InitRun

\* ---------------------------------------------------------------- Group.Go
\* a root loop that runs every node, whatever it depends on
Roots_all == Nodes

Roots == {n \in Nodes : Len(deps[n]) = 0}

\* the first root at or after index i (0: none)
NextRoot(i) ==
    IF \E n \in Roots : n >= i
    THEN CHOOSE n \in Roots : n >= i /\ \A m \in Roots : m >= i => n <= m
    ELSE 0

\* what a hook may return: nil or an error of its own
HookResults == {"nil", "err"}

\* a set-up of exec that counts the strong dependencies only
execInit_strong ==
    /\ indegree' = [n \in Nodes |->
                        Cardinality({i \in 1..Len(deps[n]) :
                                        \A j \in 1..Len(weakTo[deps[n][i]]) :
                                            weakTo[deps[n][i]][j] # n})]
    /\ tracker' = [on |-> \E n \in Nodes : rollback[n],
                   order |-> [i \in 1..Cardinality({n \in Nodes : rollback[n]}) |-> 0],
                   cnt |-> 0]
    /\ rootIdx' = NextRoot(1)
    /\ mainPc' = IF NextRoot(1) = 0 THEN "wait" ELSE "roots"

\* exec's set-up: indegree[i] = len(node.deps); a tracker when a node has a rollback
execInit ==
    /\ indegree' = [n \in Nodes |-> Len(deps[n])]
    /\ tracker' = [on |-> \E n \in Nodes : rollback[n],
                   order |-> [i \in 1..Cardinality({n \in Nodes : rollback[n]}) |-> 0],
                   cnt |-> 0]
    /\ rootIdx' = NextRoot(1)
    /\ mainPc' = IF NextRoot(1) = 0 THEN "wait" ELSE "roots"

\* a Go that goes on to exec with the error of Pre
GoStart_dispatch ==
    /\ mainPc = "start"
    /\ \E r \in IF Pre THEN HookResults ELSE {"nil"} :
        /\ execInit
        /\ err' = IF r = "err" THEN GroupPreErr ELSE err
    /\ UNCHANGED <<cfgVars, storeVars, ctxVars, groupErrs, workerVars, bodyVars, histVars,
                   leafErr, rolled, rbFailed>>

\* Go up to the root loop of exec: the group Pre interceptor, then exec's set-up.
\* An error of Pre is returned at once: the deferred assembly is not registered yet.
GoStart ==
    /\ mainPc = "start"
    /\ \E r \in IF Pre THEN HookResults ELSE {"nil"} :
        IF r = "err"
        THEN /\ err' = GroupPreErr
             /\ mainPc' = "returned"
             /\ UNCHANGED <<indegree, tracker, rootIdx>>
        ELSE /\ execInit
             /\ err' = err
    /\ UNCHANGED <<cfgVars, storeVars, ctxVars, groupErrs, workerVars, bodyVars, histVars,
                   leafErr, rolled, rbFailed>>

\* exec's root loop: run(node) for every node without dependencies; eg.Go blocks
\* while the semaphore is full.
RootDispatch ==
    /\ mainPc = "roots"
    /\ CanSubmit
    /\ pc' = [pc EXCEPT ![rootIdx] = "entry"]
    /\ rootIdx' = NextRoot(rootIdx + 1)
    /\ mainPc' = IF NextRoot(rootIdx + 1) = 0 THEN "wait" ELSE "roots"
    /\ UNCHANGED <<cfgVars, storeVars, ctxVars, execVars, bodyVars, histVars, nidx,
                   err, leafErr, rolled, rbFailed>>

\* an eg.Wait that returns once every node of the group has run
WaitDone_all ==
    /\ mainPc \in {"wait", "waitdone"}
    /\ \A n \in Nodes : pc[n] = "done"
    /\ err' = egErr
    /\ ctxDone' = Cancel("errgroup")
    /\ mainPc' = "assemble"
    /\ UNCHANGED <<cfgVars, storeVars, egErr, execVars, workerVars, bodyVars, histVars,
                   rootIdx, leafErr, rolled, rbFailed>>

\* eg.Wait returns once every worker has returned; it cancels the errgroup's ctx.
WaitDone ==
    /\ mainPc \in {"wait", "waitdone"}
    /\ Active = {}
    /\ err' = egErr
    /\ ctxDone' = Cancel("errgroup")
    /\ mainPc' = "assemble"
    /\ UNCHANGED <<cfgVars, storeVars, egErr, execVars, workerVars, bodyVars, histVars,
                   rootIdx, leafErr, rolled, rbFailed>>

\* the outer timeout control: case <-ctx.Done()
WaitCtxDone ==
    /\ mainPc = "wait"
    /\ Timeout
    /\ ctxDone # "no"
    /\ IF CtxErr = DeadlineExceeded
       THEN err' = GroupTimeoutErr /\ mainPc' = "assemble"
       ELSE err' = err /\ mainPc' = "waitdone"
    /\ UNCHANGED <<cfgVars, storeVars, ctxVars, execVars, workerVars, bodyVars, histVars,
                   rootIdx, leafErr, rolled, rbFailed>>

\* the deferred assembly, first part: leafError when err is nil
Assemble ==
    /\ mainPc = "assemble"
    /\ err' = IF err = Nil THEN leafError(groupErrs) ELSE err
    /\ leafErr' = err'
    /\ mainPc' = "rollback"
    /\ UNCHANGED <<cfgVars, storeVars, ctxVars, execVars, workerVars, bodyVars, histVars,
                   rootIdx, rolled, rbFailed>>

\* the tracked nodes from slot total down to slot 1
RECURSIVE ReverseOrder(_, _)
ReverseOrder(order, total) ==
    IF total = 0 THEN <<>> ELSE <<order[total]>> \o ReverseOrder(order, total - 1)

\* a deferred assembly that rolls back whatever err is
RollbackPhase_always ==
    /\ mainPc = "rollback"
    /\ rolled' = IF tracker.on THEN ReverseOrder(tracker.order, tracker.cnt) ELSE rolled
    /\ rbFailed' = rbFailed
    /\ err' = err
    /\ mainPc' = "after"
    /\ UNCHANGED <<cfgVars, storeVars, ctxVars, execVars, workerVars, bodyVars, histVars,
                   rootIdx, leafErr>>

\* a rollback phase that returns the rollback errors alone
RollbackJoin_replace(e, errs) == Join(errs)

\* errors.Join(err, rbErr) with rbErr = errors.Join(errs...)
RollbackJoin(e, errs) == Join(<<e, Join(errs)>>)

\* tracker.rollback: every tracked node's hook, last tracked first; a hook may fail
RollbackPhase ==
    /\ mainPc = "rollback"
    /\ IF err # Nil /\ tracker.on
       THEN LET calls == ReverseOrder(tracker.order, tracker.cnt)
            IN /\ rolled' = calls
               /\ \E failing \in SUBSET Range(calls) :
                    LET errs == NonNil([i \in 1..Len(calls) |->
                                    IF calls[i] \in failing THEN RollbackErr(calls[i]) ELSE Nil])
                    IN /\ err' = IF Len(errs) = 0 THEN err ELSE RollbackJoin(err, errs)
                       /\ rbFailed' = failing
       ELSE /\ UNCHANGED <<rolled, rbFailed>>
            /\ err' = err
    /\ mainPc' = "after"
    /\ UNCHANGED <<cfgVars, storeVars, ctxVars, execVars, workerVars, bodyVars, histVars,
                   rootIdx, leafErr>>

\* what an after hook called with e may return: e itself, nil, an error of its own
AfterResults(e) == IF e = Nil THEN {"nil", "err"} ELSE {"keep", "nil", "err"}

\* a deferred assembly that calls After only with an error
GroupAfter_onError ==
    /\ mainPc = "after"
    /\ \E a \in IF After /\ err # Nil THEN AfterResults(err) ELSE {"keep"} :
        err' = IF a = "nil" THEN Nil ELSE IF a = "err" THEN GroupAfterErr ELSE err
    /\ AfterCalls' = IF After /\ err # Nil THEN AfterCalls + 1 ELSE AfterCalls
    /\ mainPc' = "returned"
    /\ UNCHANGED <<cfgVars, storeVars, ctxVars, execVars, workerVars, bodyVars,
                   timedOut, ffOrder, preCalls, afterCalls, afterArg, results,
                   rootIdx, leafErr, rolled, rbFailed>>

\* the group After interceptor, the last step of Go
GroupAfter ==
    /\ mainPc = "after"
    /\ \E a \in IF After THEN AfterResults(err) ELSE {"keep"} :
        err' = IF a = "nil" THEN Nil ELSE IF a = "err" THEN GroupAfterErr ELSE err
    /\ AfterCalls' = IF After THEN AfterCalls + 1 ELSE AfterCalls
    /\ mainPc' = "returned"
    /\ UNCHANGED <<cfgVars, storeVars, ctxVars, execVars, workerVars, bodyVars,
                   timedOut, ffOrder, preCalls, afterCalls, afterArg, results,
                   rootIdx, leafErr, rolled, rbFailed>>

\* ---------------------------------------------------------------- the worker
\* an errgroup that keeps the last error
FirstErr_last(e) == e

\* errgroup: the first non-nil error a worker returns is kept and cancels the ctx
FirstErr(e) == IF egErr = Nil THEN e ELSE egErr

\* a retry loop with one more turn
Attempts_more(n) == retry[n] + 2

\* for i := range n.retry + 1
Attempts(n) == retry[n] + 1

\* a worker without ctx check
Entry_unchecked(n) ==
    /\ pc[n] = "entry"
    /\ IF FALSE
       THEN /\ egErr' = FirstErr(CtxErr)
            /\ pc' = [pc EXCEPT ![n] = "done"]
            /\ UNCHANGED <<bodyVars, preCalls>>
       ELSE /\ pc' = [pc EXCEPT ![n] = "exec"]
            /\ egErr' = egErr
            /\ preCalls' = IF pre[n] THEN [preCalls EXCEPT ![n] = @ + 1] ELSE preCalls
            /\ \E p \in IF pre[n] THEN HookResults ELSE {"nil"} :
                IF p = "err"
                THEN /\ body' = [body EXCEPT ![n] = "done"]
                     /\ bodyErr' = [bodyErr EXCEPT ![n] = PreErr(n)]
                     /\ UNCHANGED <<runs, left>>
                ELSE /\ body' = [body EXCEPT ![n] = "running"]
                     /\ runs' = [runs EXCEPT ![n] = 1]
                     /\ left' = [left EXCEPT ![n] = Attempts(n) - 1]
                     /\ bodyErr' = bodyErr
    /\ UNCHANGED <<cfgVars, storeVars, mainVars, ctxDone, execVars, nidx,
                   timedOut, ffOrder, afterCalls, afterArg, AfterCalls, results>>

\* The worker starts: the ctx check, then the composed execF begins (on the worker
\* itself, or on a helper goroutine when the node has a timeout): the pre wrapper
\* and the first attempt of the retry loop.
Entry(n) ==
    /\ pc[n] = "entry"
    /\ IF ctxDone # "no"
       THEN /\ egErr' = FirstErr(CtxErr)
            /\ pc' = [pc EXCEPT ![n] = "done"]
            /\ UNCHANGED <<bodyVars, preCalls>>
       ELSE /\ pc' = [pc EXCEPT ![n] = "exec"]
            /\ egErr' = egErr
            /\ preCalls' = IF pre[n] THEN [preCalls EXCEPT ![n] = @ + 1] ELSE preCalls
            /\ \E p \in IF pre[n] THEN HookResults ELSE {"nil"} :
                IF p = "err"
                THEN /\ body' = [body EXCEPT ![n] = "done"]
                     /\ bodyErr' = [bodyErr EXCEPT ![n] = PreErr(n)]
                     /\ UNCHANGED <<runs, left>>
                ELSE /\ body' = [body EXCEPT ![n] = "running"]
                     /\ runs' = [runs EXCEPT ![n] = 1]
                     /\ left' = [left EXCEPT ![n] = Attempts(n) - 1]
                     /\ bodyErr' = bodyErr
    /\ UNCHANGED <<cfgVars, storeVars, mainVars, ctxDone, execVars, nidx,
                   timedOut, ffOrder, afterCalls, afterArg, AfterCalls, results>>

\* how an attempt of a task body can end: it returns nil, returns an error, or
\* panics (SafeRunNode recovers the panic around the whole execF)
Outcomes == IF panics THEN {"ok", "err", "panic"} ELSE {"ok", "err"}

\* An attempt of the task body ends; the retry loop starts the next attempt after
\* an attempt that returned an error while attempts are left.  A panic unwinds the
\* retry loop: execF ends with the recovered panic as its error.
BodyReturn(n) ==
    /\ body[n] = "running"
    /\ \E o \in Outcomes :
        /\ results' = [results EXCEPT ![n] = Append(@, o)]
        /\ IF o = "ok"
           THEN /\ body' = [body EXCEPT ![n] = "done"]
                /\ bodyErr' = [bodyErr EXCEPT ![n] = Nil]
                /\ UNCHANGED <<runs, left>>
           ELSE IF o = "panic"
           THEN /\ body' = [body EXCEPT ![n] = "done"]
                /\ bodyErr' = [bodyErr EXCEPT ![n] = PanicErr(n)]
                /\ UNCHANGED <<runs, left>>
           ELSE IF left[n] > 0
                THEN /\ left' = [left EXCEPT ![n] = left[n] - 1]
                     /\ runs' = [runs EXCEPT ![n] = runs[n] + 1]
                     /\ UNCHANGED <<body, bodyErr>>
                ELSE /\ body' = [body EXCEPT ![n] = "done"]
                     /\ bodyErr' = [bodyErr EXCEPT ![n] = TaskErr(n, runs[n])]
                     /\ UNCHANGED <<runs, left>>
    /\ UNCHANGED <<cfgVars, storeVars, mainVars, ctxVars, execVars, workerVars,
                   timedOut, ffOrder, preCalls, afterCalls, afterArg, AfterCalls>>

\* (*rollbackTracker).track
track(t, n) == [t EXCEPT !.cnt = t.cnt + 1, !.order[t.cnt + 1] = n]

\* a notify loop that walks n.to after a failure too
NotifyList_always(n, ok) == IF ~key[n] THEN <<>> ELSE to[n]

\* a notify loop that walks n.weakTo after success too
NotifyList_weakOnly(n, ok) == IF ~key[n] THEN <<>> ELSE weakTo[n]

\* a notify loop that walks nothing after a failure
NotifyList_okOnly(n, ok) == IF ~key[n] THEN <<>> ELSE IF ok THEN to[n] ELSE <<>>

\* a notify loop that walks n.to and n.weakTo after success
NotifyList_both(n, ok) == IF ~key[n] THEN <<>> ELSE IF ok THEN to[n] \o weakTo[n] ELSE weakTo[n]

\* the successors the worker notifies: all of them after success, the weak ones
\* after a failure, none for a node without key
NotifyList(n, ok) == IF ~key[n] THEN <<>> ELSE IF ok THEN to[n] ELSE weakTo[n]

\* The worker's deferred function with the worker's result e: track, the node's
\* after hook, wrap and record; a failed fast-fail node returns its error to the
\* errgroup, every other worker goes on to notify.
Completion(n, e) ==
    /\ tracker' = IF tracker.on /\ rollback[n] THEN track(tracker, n) ELSE tracker
    /\ afterCalls' = IF after[n] THEN [afterCalls EXCEPT ![n] = @ + 1] ELSE afterCalls
    /\ afterArg' = IF after[n] THEN [afterArg EXCEPT ![n] = e] ELSE afterArg
    /\ UNCHANGED <<preCalls, AfterCalls, results>>
    /\ \E a \in IF after[n] THEN AfterResults(e) ELSE {"keep"} :
        LET e1 == IF a = "nil" THEN Nil ELSE IF a = "err" THEN AfterErr(n) ELSE e
            ok == e1 = Nil
            recorded == wrapError(n, e1, groupErrs)
        IN /\ groupErrs' = IF ok THEN groupErrs ELSE [groupErrs EXCEPT ![n] = recorded]
           /\ sent' = IF ok THEN [sent EXCEPT ![n] = store[n]] ELSE sent
           /\ IF ~ok /\ ff[n]
              THEN /\ egErr' = FirstErr(recorded)
                   /\ ctxDone' = Cancel("errgroup")
                   /\ ffOrder' = Append(ffOrder, n)
                   /\ pc' = [pc EXCEPT ![n] = "done"]
                   /\ nidx' = nidx
              ELSE /\ UNCHANGED <<egErr, ctxDone, ffOrder>>
                   /\ IF Len(NotifyList(n, ok)) = 0
                      THEN pc' = [pc EXCEPT ![n] = "done"] /\ nidx' = nidx
                      ELSE pc' = [pc EXCEPT ![n] = "notify"] /\ nidx' = [nidx EXCEPT ![n] = 1]

\* a worker that drops what execF returned
Return_nil(n) ==
    /\ pc[n] = "exec"
    /\ body[n] = "done"
    /\ Completion(n, Nil)
    /\ timedOut' = timedOut
    /\ UNCHANGED <<cfgVars, store, fetched, mainVars, indegree, bodyVars>>

\* execF returned (directly, or through the done channel of the timeout select)
Return(n) ==
    /\ pc[n] = "exec"
    /\ body[n] = "done"
    /\ Completion(n, bodyErr[n])
    /\ timedOut' = timedOut
    /\ UNCHANGED <<cfgVars, store, fetched, mainVars, indegree, bodyVars>>

\* a timeout select that waits for execF and returns its result
NodeTimeout_wait(n) ==
    /\ pc[n] = "exec"
    /\ timeout[n]
    /\ body[n] = "done"
    /\ Completion(n, bodyErr[n])
    /\ timedOut' = [timedOut EXCEPT ![n] = TRUE]
    /\ UNCHANGED <<cfgVars, store, fetched, mainVars, indegree, bodyVars>>

\* the node's timeout select takes <-ctx.Done() with a DeadlineExceeded ctx (the
\* node's own deadline, or the group's): the worker returns "node <key> timeout"
\* and leaves execF running on the helper
NodeTimeout(n) ==
    /\ pc[n] = "exec"
    /\ timeout[n]
    /\ Completion(n, NodeTimeoutErr(n))
    /\ timedOut' = [timedOut EXCEPT ![n] = TRUE]
    /\ UNCHANGED <<cfgVars, store, fetched, mainVars, indegree, bodyVars>>

\* the list the worker of n walks in its notify loop
Notified(n) == NotifyList(n, groupErrs[n] = Nil)

\* the worker's position after handling entry nidx[n] of its notify list
Advance(n) ==
    IF nidx[n] < Len(Notified(n))
    THEN [pc |-> "notify", nidx |-> nidx[n] + 1]
    ELSE [pc |-> "done", nidx |-> nidx[n]]

\* one turn of the notify loop: decrement the successor's counter
Notify(n) ==
    /\ pc[n] = "notify"
    /\ LET c == Notified(n)[nidx[n]]
           d == Dec32(indegree[c])
       IN /\ indegree' = [indegree EXCEPT ![c] = d]
          /\ IF d = 0
             THEN /\ pc' = [pc EXCEPT ![n] = "spawn"]
                  /\ nidx' = nidx
             ELSE /\ pc' = [pc EXCEPT ![n] = Advance(n).pc]
                  /\ nidx' = [nidx EXCEPT ![n] = Advance(n).nidx]
    /\ UNCHANGED <<cfgVars, storeVars, mainVars, ctxVars, groupErrs, tracker, bodyVars, histVars>>

\* run(g.nodes[toIdx]) from the notify loop: eg.Go blocks while the semaphore is
\* full, and the worker that calls it holds a slot itself
Spawn(n) ==
    /\ pc[n] = "spawn"
    /\ CanSubmit
    /\ pc' = [pc EXCEPT ![Notified(n)[nidx[n]]] = "entry", ![n] = Advance(n).pc]
    /\ nidx' = [nidx EXCEPT ![n] = Advance(n).nidx]
    /\ UNCHANGED <<cfgVars, storeVars, mainVars, ctxVars, execVars, bodyVars, histVars>>

\* ---------------------------------------------------------------- environment
\* the ctx given to Go is cancelled by its owner
ParentCancel ==
    /\ mainPc # "returned"
    /\ ctxDone = "no"
    /\ ctxDone' = "parent"
    /\ UNCHANGED <<cfgVars, storeVars, mainVars, egErr, execVars, workerVars, bodyVars, histVars>>

\* the deadline of context.WithTimeout(ctx, g.Timeout) passes
GroupDeadline ==
    /\ Timeout
    /\ mainPc # "returned"
    /\ ctxDone = "no"
    /\ ctxDone' = "deadline"
    /\ UNCHANGED <<cfgVars, storeVars, mainVars, egErr, execVars, workerVars, bodyVars, histVars>>

\* the steps of Go and of its workers
Steps ==
    \/ GoStart
    \/ RootDispatch
    \/ WaitDone
    \/ Assemble
    \/ RollbackPhase
    \/ GroupAfter
    \/ \E n \in Nodes : Entry(n)
    \/ \E n \in Nodes : BodyReturn(n)
    \/ \E n \in Nodes : Return(n)
    \/ \E n \in Nodes : Notify(n)
    \/ \E n \in Nodes : Spawn(n)

Next ==
    \/ Steps
    \/ \E n \in Nodes : NodeTimeout(n)

NextHooks == Steps

NextCancel ==
    \/ Steps
    \/ WaitCtxDone
    \/ ParentCancel
    \/ GroupDeadline

Spec == Init /\ [][Next]_vars

SpecLimit == InitLimit /\ [][Next]_vars

SpecHooks == InitHooks /\ [][NextHooks]_vars

SpecCancel == InitCancel /\ [][NextCancel]_vars

SpecRetry == InitRetry /\ [][NextHooks]_vars

SpecRollback == InitRollback /\ [][NextCancel]_vars

\* ---------------------------------------------------------------- cycles
\* Dep and WeakDep accept any registered key, the node's own and that of a node
\* declared later included: deps, to and weakTo of a group with at most MaxEdges
\* edges between any two nodes
AnyEdges == Nodes \X Nodes

BuiltAny(kind) ==
    /\ deps = [n \in Nodes |-> SortedSeq({m \in Nodes : kind[<<n, m>>] # "none"})]
    /\ to = [m \in Nodes |-> SortedSeq({n \in Nodes : kind[<<n, m>>] # "none"})]
    /\ weakTo = [m \in Nodes |-> SortedSeq({n \in Nodes : kind[<<n, m>>] = "weak"})]
    /\ key = [n \in Nodes |-> TRUE]

\* the nodes S and their direct dependencies
Up(S) == S \cup UNION {Range(deps[n]) : n \in S}

RECURSIVE Reach(_, _)
Reach(S, k) == IF k = 0 THEN S ELSE Reach(Up(S), k - 1)

\* the nodes n depends on, directly or not
DependsOn(n) == Reach(Range(deps[n]), NumNodes)

OnCycle(n) == n \in DependsOn(n)

\* groups with a dependency cycle, whose task bodies may fail
InitCyclic ==
    /\ \E kind \in [AnyEdges -> EdgeKinds] :
        /\ Cardinality({e \in AnyEdges : kind[e] # "none"}) <= MaxEdges
        /\ BuiltAny(kind)
    /\ \E n \in Nodes : OnCycle(n)
    /\ ff = None
    /\ timeout = None
    /\ after = None
    /\ pre = None
    /\ retry = [n \in Nodes |-> 0]
    /\ rollback = None
    /\ Limit = 0
    /\ Timeout = FALSE
    /\ Pre = FALSE
    /\ After = FALSE
    /\ panics = FALSE
    /\ storer = FALSE
    /\ nilValues = FALSE
    /\ InitRun

\* every task body returns, and the scheduler runs every goroutine that can run
SpecCyclic == InitCyclic /\ [][NextHooks]_vars /\ WF_vars(NextHooks)

\* ---------------------------------------------------------------- panics
\* groups whose nodes have pre hooks, and whose task bodies and pre hooks may panic
InitCrash ==
    /\ Graphs
    /\ ff = None
    /\ timeout = None
    /\ after \in Uniform
    /\ pre = All
    /\ retry \in Retries
    /\ rollback = None
    /\ Limit = 0
    /\ Timeout = FALSE
    /\ Pre = FALSE
    /\ After = FALSE
    /\ panics = TRUE
    /\ storer = FALSE
    /\ nilValues = FALSE
    /\ InitRun

\* The worker starts and the pre hook of n panics: the panic unwinds the pre
\* wrapper, SafeRunNode recovers it and execF ends with the recovered error; the
\* task body is not run.
PrePanic(n) ==
    /\ pc[n] = "entry"
    /\ ctxDone = "no"
    /\ pre[n] /\ panics
    /\ pc' = [pc EXCEPT ![n] = "exec"]
    /\ preCalls' = [preCalls EXCEPT ![n] = @ + 1]
    /\ body' = [body EXCEPT ![n] = "done"]
    /\ bodyErr' = [bodyErr EXCEPT ![n] = PanicErr(n)]
    /\ UNCHANGED <<cfgVars, storeVars, mainVars, ctxVars, execVars, nidx, runs, left,
                   timedOut, ffOrder, afterCalls, afterArg, AfterCalls, results>>

NextCrash ==
    \/ Steps
    \/ \E n \in Nodes : PrePanic(n)

SpecCrash == InitCrash /\ [][NextCrash]_vars

\* ---------------------------------------------------------------- the store
\* groups whose task bodies use Store and Fetch, on a ctx with or without a
\* Storer; the first node (a root: the others may depend on it) may have a
\* timeout with an after hook, and retries
InitStore ==
    /\ Graphs
    /\ ff = None
    /\ timeout \in {None, [n \in Nodes |-> n = 1]}
    /\ after = timeout
    /\ pre = None
    /\ retry \in {[n \in Nodes |-> IF n = 1 THEN r ELSE 0] : r \in 0..MaxRetry}
    /\ rollback = None
    /\ Limit = 0
    /\ Timeout = FALSE
    /\ Pre = FALSE
    /\ After = FALSE
    /\ panics = FALSE
    /\ storer \in BOOLEAN
    /\ nilValues \in BOOLEAN
    /\ InitRun

\* a store wrapper that records every value under the key of the first node
StoreAt_first(st, n, v) == [st EXCEPT ![1] = v]

\* store.Store(n.key, v) of the storeFunc the store wrapper puts in the ctx
StoreAt(st, n, v) == [st EXCEPT ![n] = v]

\* (Storer).Load(key) for the key of node d
Load(d) == [val |-> store[d], ok |-> store[d] # NoValue]

\* val.(T): the type assertion of Fetch, with T the type the value was stored at;
\* a nil interface value satisfies no type assertion
TypeAssert(val) == [val |-> IF val.nil THEN Zero ELSE val, ok |-> ~val.nil]

\* ctx.Value(key) of the ctx given to Go: it holds no value under a node's key
CtxValue(d) == NoValue

\* Fetch[T](ctx, key) for the key of node d
Fetch(d) ==
    IF storer /\ Load(d).ok /\ TypeAssert(Load(d).val).ok
    THEN [val |-> TypeAssert(Load(d).val).val, ok |-> TRUE]
    ELSE TypeAssert(CtxValue(d))

\* the value attempt k of a task body stores
Stored(k) == IF nilValues THEN NilValue(k) ELSE Value(k)

\* What the Fetch calls of n's task body return: one call for the key of each
\* dependency of n, in its latest attempt.
FetchDeps(n) ==
    {[key |-> deps[n][i], val |-> Fetch(deps[n][i]).val, ok |-> Fetch(deps[n][i]).ok] :
        i \in 1..Len(deps[n])}

\* An attempt of the task body of n does its work: it calls Fetch with the key of
\* each of its dependencies and then Store(ctx, v), once.  The storeFunc of the store
\* wrapper records v under n.key; without a storeFunc in the ctx (a node without
\* key, or a ctx without Storer) Store panics, and SafeRunNode recovers the panic
\* as the error of execF.
BodyWork(n) ==
    /\ body[n] = "running"
    /\ store[n].k < runs[n]
    /\ fetched' = [fetched EXCEPT ![n] = FetchDeps(n)]
    /\ IF key[n] /\ storer
       THEN /\ store' = StoreAt(store, n, Stored(runs[n]))
            /\ UNCHANGED <<bodyVars, results>>
       ELSE /\ body' = [body EXCEPT ![n] = "done"]
            /\ bodyErr' = [bodyErr EXCEPT ![n] = PanicErr(n)]
            /\ results' = [results EXCEPT ![n] = Append(@, "panic")]
            /\ UNCHANGED <<store, runs, left>>
    /\ UNCHANGED <<cfgVars, sent, mainVars, ctxVars, execVars, workerVars,
                   timedOut, ffOrder, preCalls, afterCalls, afterArg, AfterCalls>>

NextStore ==
    \/ Next
    \/ \E n \in Nodes : BodyWork(n)

SpecStore == InitStore /\ [][NextStore]_vars

\* ---------------------------------------------------------------- the builder
\* The builder calls work on a state [nodes, idxMap, x, pend, panicked]: pend is
\* the node AddNode has created and not yet appended to g.nodes.  A node is
\* referred to by its position in nodes, 0 for pend.
NewNode(x) == [idx |-> x, key |-> 0, deps |-> <<>>, to |-> <<>>, weakTo |-> <<>>]

GetNode(s, r) == IF r = 0 THEN s.pend ELSE s.nodes[r]
PutNode(s, r, n) == IF r = 0 THEN [s EXCEPT !.pend = n] ELSE [s EXCEPT !.nodes[r] = n]

\* (*node).Key
KeyCall(s, r, k) ==
    LET n == GetNode(s, r)
    IN IF s.panicked THEN s
       ELSE IF s.idxMap[k] # NoIdx THEN [s EXCEPT !.panicked = TRUE]
       ELSE [PutNode(s, r, [n EXCEPT !.key = k]) EXCEPT !.idxMap[k] = n.idx]

\* a Dep without the duplicate check
DepCall_dup(s, r, k, weak) ==
    LET n == GetNode(s, r)
        idx == s.idxMap[k]
    IN IF s.panicked THEN s
       ELSE IF idx = NoIdx \/ idx + 1 > Len(s.nodes)
       THEN [s EXCEPT !.panicked = TRUE]
       ELSE LET s1 == PutNode(s, r, [n EXCEPT !.deps = Append(@, idx)])
                t == s1.nodes[idx + 1]
            IN [s1 EXCEPT !.nodes[idx + 1] =
                    [t EXCEPT !.to = Append(@, n.idx),
                              !.weakTo = IF weak THEN Append(@, n.idx) ELSE @]]

\* (*node).Dep and (*node).WeakDep with one key: the key must be in idxMap and its
\* index must not be in n.deps yet; n.nodes[idx] of an index that is not in
\* g.nodes (the node AddNode is creating) is an index out of range
DepCall(s, r, k, weak) ==
    LET n == GetNode(s, r)
        idx == s.idxMap[k]
    IN IF s.panicked THEN s
       ELSE IF idx = NoIdx \/ idx \in Range(n.deps) \/ idx + 1 > Len(s.nodes)
       THEN [s EXCEPT !.panicked = TRUE]
       ELSE LET s1 == PutNode(s, r, [n EXCEPT !.deps = Append(@, idx)])
                t == s1.nodes[idx + 1]
            IN [s1 EXCEPT !.nodes[idx + 1] =
                    [t EXCEPT !.to = Append(@, n.idx),
                              !.weakTo = IF weak THEN Append(@, n.idx) ELSE @]]

\* Dep(keys...), WeakDep(keys...): one key after the other
RECURSIVE DepCalls(_, _, _, _)
DepCalls(s, r, ks, weak) ==
    IF ks = <<>> THEN s ELSE DepCalls(DepCall(s, r, Head(ks), weak), r, Tail(ks), weak)

Building == [nodes |-> g.nodes, idxMap |-> g.idxMap, x |-> g.x,
             pend |-> NewNode(g.x), panicked |-> FALSE]

\* the number of dependency declarations made so far
EdgeCount(nodes) ==
    LET RECURSIVE Sum(_)
        Sum(i) == IF i = 0 THEN 0 ELSE Len(nodes[i].deps) + Sum(i - 1)
    IN Sum(Len(nodes))

\* what a builder call leaves: the group and whether the call panicked
Built2(s) ==
    /\ g' = [nodes |-> s.nodes, idxMap |-> s.idxMap, x |-> s.x]
    /\ panicked' = s.panicked
    /\ verifyMsg' = NotVerified

RunIdle ==
    UNCHANGED <<optVars, otherVars, mainVars, ctxVars, execVars, workerVars, bodyVars, histVars,
                storeVars>>

\* The keys a builder call is tried with: the nil key, the keys in idxMap and one
\* key that is not in idxMap.  Keys are compared only for equality, so one unknown
\* key stands for all of them.
CallKeys ==
    LET unknown == {k \in Keys \ {0} : g.idxMap[k] = NoIdx}
    IN {k \in Keys : k = 0 \/ g.idxMap[k] # NoIdx}
         \cup (IF unknown = {} THEN {} ELSE {CHOOSE k \in unknown : \A j \in unknown : k <= j})

\* The group is open to builder calls: no call has panicked (a panic unwinds the
\* caller) and Verify has not been called.  Verify leaves the group as it is, so
\* the builder calls that may follow it lead to the states reached without it.
Open == ~panicked /\ ~verifyMsg.called

\* AddRunner, AddTask, AddSharedTask
AddRunner ==
    /\ Open
    /\ Len(g.nodes) < NumNodes
    /\ Built2([Building EXCEPT !.nodes = Append(@, NewNode(g.x)), !.x = @ + 1])
    /\ RunIdle

\* the argument lists of AddNode's Dep() and WeakDep()
KeyLists == {<<>>} \cup {<<k>> : k \in CallKeys}

\* AddNode: Key, Dep and WeakDep on the new node, then the append
AddNode ==
    /\ Open
    /\ Len(g.nodes) < NumNodes
    /\ \E k \in CallKeys, ds \in KeyLists, ws \in KeyLists :
        /\ EdgeCount(g.nodes) + Len(ds) + Len(ws) <= MaxEdges
        /\ \E s1 \in {KeyCall(Building, 0, k)} :
           \E s2 \in {DepCalls(s1, 0, ds, FALSE)} :
           \E s3 \in {DepCalls(s2, 0, ws, TRUE)} :
               Built2(IF s3.panicked THEN s3
                      ELSE [s3 EXCEPT !.nodes = Append(@, s3.pend), !.x = @ + 1])
    /\ RunIdle

\* Key on a node of the group
Key ==
    /\ Open
    /\ \E r \in 1..Len(g.nodes), k \in CallKeys :
        \E s \in {KeyCall(Building, r, k)} : Built2(s)
    /\ RunIdle

\* Dep on a node of the group
Dep ==
    /\ Open
    /\ EdgeCount(g.nodes) < MaxEdges
    /\ \E r \in 1..Len(g.nodes), k \in CallKeys :
        \E s \in {DepCall(Building, r, k, FALSE)} : Built2(s)
    /\ RunIdle

\* WeakDep on a node of the group
WeakDep ==
    /\ Open
    /\ EdgeCount(g.nodes) < MaxEdges
    /\ \E r \in 1..Len(g.nodes), k \in CallKeys :
        \E s \in {DepCall(Building, r, k, TRUE)} : Built2(s)
    /\ RunIdle

\* ---------------------------------------------------------------- Verify
\* the keys of the nodes Verify puts in its graph (anonymous nodes are skipped)
GraphKeys == {g.nodes[i].key : i \in 1..Len(g.nodes)} \ {0}

\* the node that holds key k
Holder(k) == CHOOSE i \in 1..Len(g.nodes) : g.nodes[i].key = k

\* graph[key]: the keys of the dependencies of the node, in deps order, without
\* the anonymous ones
GraphOf(k) ==
    LET ds == g.nodes[Holder(k)].deps
        RECURSIVE Keep(_)
        Keep(i) == IF i > Len(ds) THEN <<>>
                   ELSE IF g.nodes[ds[i] + 1].key = 0 THEN Keep(i + 1)
                   ELSE <<g.nodes[ds[i] + 1].key>> \o Keep(i + 1)
    IN Keep(1)

\* the graph Verify builds: for every keyed node the keys of its dependencies
Graph == [k \in GraphKeys |-> GraphOf(k)]

\* a dfs that does not look at its stack
RECURSIVE dfs_noStack(_, _, _, _)
dfs_noStack(graph, k, stk, visited) ==
    IF k \in visited THEN [msg |-> <<>>, visited |-> visited]
    ELSE LET RECURSIVE Each(_, _)
             Each(i, vis) ==
                 IF i > Len(graph[k]) THEN [msg |-> <<>>, visited |-> vis]
                 ELSE LET x == dfs_noStack(graph, graph[k][i], stk \cup {k}, vis)
                      IN IF x.msg # <<>> THEN [msg |-> <<k>> \o x.msg, visited |-> x.visited]
                         ELSE Each(i + 1, x.visited)
         IN Each(1, visited \cup {k})

\* the dfs closure of Verify: the path to a key that is on the stack, or "" (the
\* empty path), and the visited set it leaves
RECURSIVE dfs(_, _, _, _)
dfs(graph, k, stk, visited) ==
    IF k \in stk THEN [msg |-> <<k>>, visited |-> visited]
    ELSE IF k \in visited THEN [msg |-> <<>>, visited |-> visited]
    ELSE LET RECURSIVE Each(_, _)
             Each(i, vis) ==
                 IF i > Len(graph[k]) THEN [msg |-> <<>>, visited |-> vis]
                 ELSE LET x == dfs(graph, graph[k][i], stk \cup {k}, vis)
                      IN IF x.msg # <<>> THEN [msg |-> <<k>> \o x.msg, visited |-> x.visited]
                         ELSE Each(i + 1, x.visited)
         IN Each(1, visited \cup {k})

\* the loop `for key := range graph` over the keys in the order ks
RECURSIVE CheckCycle(_, _, _)
CheckCycle(graph, ks, visited) ==
    IF ks = <<>> THEN <<>>
    ELSE IF Head(ks) \in visited THEN CheckCycle(graph, Tail(ks), visited)
    ELSE LET x == dfs(graph, Head(ks), {}, visited)
         IN IF x.msg # <<>> THEN x.msg ELSE CheckCycle(graph, Tail(ks), x.visited)

\* the orders in which a range over a map with key set S may yield the keys
Orders(S) == {ks \in [1..Cardinality(S) -> S] : \A i, j \in 1..Cardinality(S) : ks[i] = ks[j] => i = j}

\* Verify(false)
Verify ==
    /\ ~panicked
    /\ Len(g.nodes) > 0
    /\ \E graph \in {Graph} : \E ks \in Orders(GraphKeys) :
        verifyMsg' = [called |-> TRUE, path |-> CheckCycle(graph, ks, {})]
    /\ UNCHANGED <<g, panicked>>
    /\ RunIdle

NextBuilder ==
    \/ AddRunner
    \/ AddNode
    \/ Key
    \/ Dep
    \/ WeakDep
    \/ Verify

\* a new group, before any builder call
InitBuilder ==
    /\ Built([e \in Edges |-> "none"])
    /\ ff = None
    /\ timeout = None
    /\ after = None
    /\ pre = None
    /\ retry = [n \in Nodes |-> 0]
    /\ rollback = None
    /\ Limit = 0
    /\ Timeout = FALSE
    /\ Pre = FALSE
    /\ After = FALSE
    /\ panics = FALSE
    /\ storer = FALSE
    /\ nilValues = FALSE
    /\ InitRun

SpecBuilder == InitBuilder /\ [][NextBuilder]_vars

\* ---------------------------------------------------------------- TryGo
\* One call TryGo(ctx, opts, fs...) of the flat executor, in the record flat:
\*   n, optsNil, limit, pre, after, timeout   the arguments (len(fs), opts)
\*   pc        position of the caller
\*   lim       the limit given to errgroup.SetLimit
\*   i         position of the submission loop of tryExec
\*   ok, err   the named results
\*   task      task[t]: "none", "entry" (admitted), "running", "done"
\*   ctxDone   what cancelled the ctx the tasks see; egErr: errgroup's first error
\* The ctx given to TryGo is never cancelled.
Funcs == 1..MaxFuncs

LimitErr == Plain("limit cannot be less than the number of funcs", 0)

\* what Go and the builder leave alone while TryGo runs
goVars == <<optVars, builderVars, mainVars, ctxVars, execVars, workerVars, bodyVars,
            histVars, storeVars>>

FlatCall(n, optsNil, lim, p, a, t) ==
    [pc |-> "start", n |-> n, optsNil |-> optsNil, limit |-> lim, pre |-> p,
     after |-> a, timeout |-> t, lim |-> 0, i |-> 0, ok |-> FALSE, err |-> Nil,
     task |-> [f \in Funcs |-> "none"], ctxDone |-> "no", egErr |-> Nil]

\* the calls: opts == nil, or opts with any limit and any interceptors
FlatCalls ==
    {FlatCall(n, TRUE, 0, FALSE, FALSE, FALSE) : n \in 0..MaxFuncs}
    \cup {FlatCall(n, FALSE, lim, p, a, t) :
            n \in 0..MaxFuncs, lim \in 0..MaxFuncs, p \in BOOLEAN, a \in BOOLEAN,
            t \in BOOLEAN}

InitFlat ==
    /\ Built([e \in Edges |-> "none"])
    /\ ff = None
    /\ timeout = None
    /\ after = None
    /\ pre = None
    /\ retry = [n \in Nodes |-> 0]
    /\ rollback = None
    /\ Limit = 0
    /\ Timeout = FALSE
    /\ Pre = FALSE
    /\ After = FALSE
    /\ panics = FALSE
    /\ storer = FALSE
    /\ nilValues = FALSE
    /\ InitCall
    /\ flat \in FlatCalls
    /\ CallsIdle
    /\ FineIdle
    /\ CowIdle

FlatReturn(ok, e) == [flat EXCEPT !.pc = "returned", !.ok = ok, !.err = e]

\* if opts.limit < len(fs)
FlatRejects == flat.limit < flat.n

\* TryGo up to the call of tryExec: the empty call, the opts == nil short circuit,
\* the limit check, the limit, the group pre interceptor
FlatStart ==
    /\ flat.pc = "start"
    /\ IF flat.n = 0 THEN flat' = FlatReturn(TRUE, Nil)
       ELSE IF flat.optsNil THEN flat' = [flat EXCEPT !.pc = "submit", !.lim = flat.n, !.ok = TRUE]
       ELSE IF FlatRejects THEN flat' = FlatReturn(FALSE, LimitErr)
       ELSE \E p \in IF flat.pre THEN HookResults ELSE {"nil"} :
                IF p = "err"
                THEN flat' = FlatReturn(FALSE, GroupPreErr)
                ELSE flat' = [flat EXCEPT !.pc = "submit", !.ok = TRUE,
                                          !.lim = IF flat.limit > 0 THEN flat.limit ELSE flat.n]
    /\ UNCHANGED <<goVars, goCalls, fine, cow>>

\* the tasks that hold a slot of the errgroup
FlatActive == {f \in Funcs : flat.task[f] \in {"entry", "running"}}

\* one turn of the loop of tryExec: ok = ok && g.TryGo(...); g.TryGo admits the
\* task when a slot is free and is not called once ok is false
FlatSubmit ==
    /\ flat.pc = "submit"
    /\ IF flat.i = flat.n
       THEN flat' = [flat EXCEPT !.pc = "wait"]
       ELSE IF flat.ok /\ Cardinality(FlatActive) < flat.lim
            THEN flat' = [flat EXCEPT !.i = @ + 1, !.task[flat.i + 1] = "entry"]
            ELSE flat' = [flat EXCEPT !.i = @ + 1, !.ok = FALSE]
    /\ UNCHANGED <<goVars, goCalls, fine, cow>>

\* errgroup records the first error and cancels its ctx
FlatFail(e) ==
    [egErr |-> IF flat.egErr = Nil THEN e ELSE flat.egErr,
     ctxDone |-> IF flat.ctxDone = "no" THEN "errgroup" ELSE flat.ctxDone]

\* an admitted task starts: the ctx check, then SafeRun(ctx, f)
FlatEntry(f) ==
    /\ flat.task[f] = "entry"
    /\ IF flat.ctxDone # "no"
       THEN \E e \in {IF flat.ctxDone = "deadline" THEN DeadlineExceeded ELSE Canceled} :
                flat' = [flat EXCEPT !.task[f] = "done", !.egErr = FlatFail(e).egErr,
                                     !.ctxDone = FlatFail(e).ctxDone]
       ELSE flat' = [flat EXCEPT !.task[f] = "running"]
    /\ UNCHANGED <<goVars, goCalls, fine, cow>>

\* f returns nil or an error
FlatTaskReturn(f) ==
    /\ flat.task[f] = "running"
    /\ \/ flat' = [flat EXCEPT !.task[f] = "done"]
       \/ flat' = [flat EXCEPT !.task[f] = "done", !.egErr = FlatFail(TaskErr(f, 1)).egErr,
                               !.ctxDone = FlatFail(TaskErr(f, 1)).ctxDone]
    /\ UNCHANGED <<goVars, goCalls, fine, cow>>

\* the deadline of context.WithTimeout(gtx, opts.timeout) passes
FlatDeadline ==
    /\ flat.pc \in {"submit", "wait"}
    /\ flat.timeout
    /\ flat.ctxDone = "no"
    /\ flat' = [flat EXCEPT !.ctxDone = "deadline"]
    /\ UNCHANGED <<goVars, goCalls, fine, cow>>

\* g.Wait() returns (directly, or through the done channel: the select of the
\* outer timeout control waits on the ctx given to TryGo, which is never done);
\* then the deferred group after interceptor
FlatWait ==
    /\ flat.pc = "wait"
    /\ FlatActive = {}
    /\ \E a \in IF flat.after THEN AfterResults(flat.egErr) ELSE {"keep"} :
        flat' = FlatReturn(flat.ok,
                    IF a = "nil" THEN Nil ELSE IF a = "err" THEN GroupAfterErr ELSE flat.egErr)
    /\ UNCHANGED <<goVars, goCalls, fine, cow>>

NextFlat ==
    \/ FlatStart
    \/ FlatSubmit
    \/ FlatDeadline
    \/ FlatWait
    \/ \E f \in Funcs : FlatEntry(f)
    \/ \E f \in Funcs : FlatTaskReturn(f)

SpecFlat == InitFlat /\ [][NextFlat]_vars

\* ---------------------------------------------------------------- concurrent Go
\* Two Go calls on one group (goCalls[1], goCalls[2]), without options: each call
\* makes its own groupErrs (Go) and indegree (exec) and runs its own workers:
\*   pc         "idle", "running" (exec has dispatched the roots), "returned"
\*   indegree, groupErrs   the slices of the call
\*   w          w[n]: the worker of n, "idle", "entry", "body", "done"
\*   runs       runs[n]: times the body of n was started by this call
\*   order      the nodes in the order their bodies were started
\*   err        the result of the call
TwoCalls == 1..2

\* workers that decrement the counters of the first call
Counters_first(c) == 1

\* the call whose indegree slice the workers of call c decrement: its own
Counters(c) == c

InitTwo ==
    /\ Graphs
    /\ ff = None
    /\ timeout = None
    /\ after = None
    /\ pre = None
    /\ retry = [n \in Nodes |-> 0]
    /\ rollback = None
    /\ Limit = 0
    /\ Timeout = FALSE
    /\ Pre = FALSE
    /\ After = FALSE
    /\ panics = FALSE
    /\ storer = FALSE
    /\ nilValues = FALSE
    /\ InitCall
    /\ FlatIdle
    /\ FineIdle
    /\ CowIdle
    /\ goCalls = [c \in TwoCalls |->
                  [pc |-> "idle", indegree |-> [n \in Nodes |-> 0],
                   groupErrs |-> [n \in Nodes |-> Nil], w |-> [n \in Nodes |-> "idle"],
                   runs |-> [n \in Nodes |-> 0], order |-> <<>>, err |-> Nil]]

\* Go up to the end of exec: the slices are made, the roots are dispatched
CallStart(c) ==
    /\ goCalls[c].pc = "idle"
    /\ goCalls' = [goCalls EXCEPT ![c].pc = "running",
                              ![c].indegree = [n \in Nodes |-> Len(deps[n])],
                              ![c].w = [n \in Nodes |-> IF n \in Roots THEN "entry" ELSE "idle"]]
    /\ UNCHANGED <<goVars, flat, fine, cow>>

\* the worker of n starts the body
CallEntry(c, n) ==
    /\ goCalls[c].w[n] = "entry"
    /\ goCalls' = [goCalls EXCEPT ![c].w[n] = "body", ![c].runs[n] = @ + 1,
                              ![c].order = Append(@, n)]
    /\ UNCHANGED <<goVars, flat, fine, cow>>

\* the notify loop over list: the counters after it
RECURSIVE NotifyAll(_, _)
NotifyAll(ind, list) ==
    IF list = <<>> THEN ind
    ELSE NotifyAll([ind EXCEPT ![Head(list)] = Dec32(@)], Tail(list))

\* The body of n returns nil or an error; the deferred function records the
\* wrapped error in the call's groupErrs, decrements the counters of the nodes to
\* notify and dispatches those whose counter reached zero.
CallFinish(c, n) ==
    /\ goCalls[c].w[n] = "body"
    /\ \E e \in {Nil, TaskErr(n, 1)} :
        LET list == NotifyList(n, e = Nil)
            k == Counters(c)
            ind == NotifyAll(goCalls[k].indegree, list)
            ready == {x \in Range(list) : ind[x] = 0}
            c1 == [goCalls EXCEPT ![k].indegree = ind]
        IN goCalls' = [c1 EXCEPT
                        ![c].groupErrs[n] = IF e = Nil THEN Nil
                                            ELSE wrapError(n, e, goCalls[c].groupErrs),
                        ![c].w = [x \in Nodes |-> IF x = n THEN "done"
                                                  ELSE IF x \in ready THEN "entry"
                                                  ELSE c1[c].w[x]]]
    /\ UNCHANGED <<goVars, flat, fine, cow>>

\* eg.Wait returns nil (no worker returns an error without fast-fail) and the
\* deferred function assembles the leaf error
CallWait(c) ==
    /\ goCalls[c].pc = "running"
    /\ \A n \in Nodes : goCalls[c].w[n] \in {"idle", "done"}
    /\ goCalls' = [goCalls EXCEPT ![c].pc = "returned", ![c].err = leafError(goCalls[c].groupErrs)]
    /\ UNCHANGED <<goVars, flat, fine, cow>>

NextTwo ==
    \E c \in TwoCalls :
        \/ CallStart(c)
        \/ CallWait(c)
        \/ \E n \in Nodes : CallEntry(c, n)
        \/ \E n \in Nodes : CallFinish(c, n)

SpecTwo == InitTwo /\ [][NextTwo]_vars

\* ---------------------------------------------------------------- slots
\* One Go call of a group with a timeout and rollback hooks, with the writes and
\* reads of groupErrs and of the rollback tracker as separate steps (record fine):
\*   pc        the caller: "idle", "running", "rollback", "returned", "panicked"
\*   deadline  TRUE when the group deadline has passed
\*   w         w[n]: the worker of n: "idle", "entry", "body", "reserve" (the
\*             deferred function starts), "slot" (cnt incremented, order not yet
\*             written), "record" (before the write of groupErrs[n]), "done"
\*   werr      werr[n]: what the body of n returned
\*   indegree, groupErrs, cnt, order (0: a nil slot), at (at[n]: the slot n reserved)
\*   writes    writes[n]: number of writes of groupErrs[n]
\*   slotWrites  slotWrites[i]: number of writes of order[i]
\*   total, ri  the rollback loop; err: the result of Go
\*   raced     nodes whose groupErrs slot was read while their worker could write it
\*   nilRead   TRUE when the rollback loop read a nil slot of order
\* the number of nodes with a rollback hook: the capacity of tracker.order
rbCnt == Cardinality({n \in Nodes : rollback[n]})

InitFine ==
    /\ Graphs
    /\ ff = None
    /\ timeout = None
    /\ after = None
    /\ pre = None
    /\ retry = [n \in Nodes |-> 0]
    /\ rollback \in [Nodes -> BOOLEAN]
    /\ Limit = 0
    /\ Timeout = TRUE
    /\ Pre = FALSE
    /\ After = FALSE
    /\ panics = FALSE
    /\ storer = FALSE
    /\ nilValues = FALSE
    /\ InitCall
    /\ FlatIdle
    /\ CallsIdle
    /\ CowIdle
    /\ fine = [pc |-> "idle", deadline |-> FALSE, w |-> [n \in Nodes |-> "idle"],
               werr |-> [n \in Nodes |-> Nil], indegree |-> [n \in Nodes |-> 0],
               groupErrs |-> [n \in Nodes |-> Nil], cnt |-> 0,
               order |-> [i \in 1..rbCnt |-> 0], at |-> [n \in Nodes |-> 0],
               writes |-> [n \in Nodes |-> 0], slotWrites |-> [i \in 1..rbCnt |-> 0],
               total |-> 0, ri |-> 0, err |-> Nil, raced |-> {}, nilRead |-> FALSE]

fineFrame == UNCHANGED <<goVars, flat, goCalls, cow>>

\* the worker of n may still write groupErrs[n]
CanWrite(n) == fine.w[n] \in {"entry", "body", "reserve", "slot", "record"}

\* the nodes among ns whose slot is read while their worker may still write it
Racing(ns) == {n \in ns : CanWrite(n)}

\* Go up to the end of exec
FineStart ==
    /\ fine.pc = "idle"
    /\ fine' = [fine EXCEPT !.pc = "running",
                            !.indegree = [n \in Nodes |-> Len(deps[n])],
                            !.w = [n \in Nodes |-> IF n \in Roots THEN "entry" ELSE "idle"]]
    /\ fineFrame

\* the group deadline passes
FineDeadline ==
    /\ fine.pc = "running"
    /\ ~fine.deadline
    /\ fine' = [fine EXCEPT !.deadline = TRUE]
    /\ fineFrame

\* the worker's ctx check
FineEntry(n) ==
    /\ fine.w[n] = "entry"
    /\ fine' = [fine EXCEPT !.w[n] = IF fine.deadline THEN "done" ELSE "body"]
    /\ fineFrame

\* the body returns nil or an error; the deferred function starts
FineBody(n) ==
    /\ fine.w[n] = "body"
    /\ \E e \in {Nil, TaskErr(n, 1)} :
        fine' = [fine EXCEPT !.werr[n] = e,
                             !.w[n] = IF rbCnt > 0 /\ rollback[n] THEN "reserve" ELSE "record"]
    /\ fineFrame

\* track, first half: atomic.AddUint32(&r.cnt, 1)
FineReserve(n) ==
    /\ fine.w[n] = "reserve"
    /\ fine' = [fine EXCEPT !.cnt = @ + 1, !.at[n] = fine.cnt + 1, !.w[n] = "slot"]
    /\ fineFrame

\* track, second half: r.order[cnt-1] = n
FineSlot(n) ==
    /\ fine.w[n] = "slot"
    /\ fine' = [fine EXCEPT !.order[fine.at[n]] = n, !.slotWrites[fine.at[n]] = @ + 1,
                            !.w[n] = "record"]
    /\ fineFrame

\* wrap and record (wrapError reads the slots of the dependencies of n), then the
\* notify loop
FineRecord(n) ==
    /\ fine.w[n] = "record"
    /\ LET e == fine.werr[n]
           list == NotifyList(n, e = Nil)
           ind == NotifyAll(fine.indegree, list)
           ready == {x \in Range(list) : ind[x] = 0}
       IN fine' = [fine EXCEPT
                    !.groupErrs[n] = IF e = Nil THEN @ ELSE wrapError(n, e, fine.groupErrs),
                    !.writes[n] = IF e = Nil THEN @ ELSE @ + 1,
                    !.raced = IF e = Nil THEN @ ELSE @ \cup Racing(Range(deps[n])),
                    !.indegree = ind,
                    !.w = [x \in Nodes |-> IF x = n THEN "done"
                                           ELSE IF x \in ready THEN "entry" ELSE fine.w[x]]]
    /\ fineFrame

\* eg.Wait returns through done: every worker has returned; the deferred function
\* of Go reads every slot in leafError
FineWait ==
    /\ fine.pc = "running"
    /\ \A n \in Nodes : fine.w[n] \in {"idle", "done"}
    /\ fine' = [fine EXCEPT !.pc = "rollback",
                            !.err = leafError(fine.groupErrs),
                            !.raced = @ \cup Racing(Nodes)]
    /\ fineFrame

\* the select of the outer timeout control takes <-ctx.Done() after the deadline:
\* Go returns the timeout error while workers may be running
FineTimeout ==
    /\ fine.pc = "running"
    /\ fine.deadline
    /\ fine' = [fine EXCEPT !.pc = "rollback", !.err = GroupTimeoutErr]
    /\ fineFrame

\* the deferred function of Go reaches the rollback: total := LoadUint32(&r.cnt)
FineLoad ==
    /\ fine.pc = "rollback"
    /\ fine.ri = 0 /\ fine.total = 0
    /\ IF fine.err # Nil /\ rbCnt > 0 /\ fine.cnt > 0
       THEN fine' = [fine EXCEPT !.total = fine.cnt, !.ri = fine.cnt]
       ELSE fine' = [fine EXCEPT !.pc = "returned"]
    /\ fineFrame

\* one turn of the rollback loop: n := r.order[i]; n.rollback(ctx, shared,
\* groupErrs[n.idx]).  A nil slot makes n.rollback a nil pointer dereference: Go
\* panics.
FineRollback ==
    /\ fine.pc = "rollback"
    /\ fine.ri > 0
    /\ LET n == fine.order[fine.ri]
       IN IF n = 0
          THEN fine' = [fine EXCEPT !.nilRead = TRUE, !.pc = "panicked"]
          ELSE fine' = [fine EXCEPT !.raced = @ \cup Racing({n}), !.ri = @ - 1,
                                    !.pc = IF fine.ri = 1 THEN "returned" ELSE @]
    /\ fineFrame

NextFine ==
    \/ FineStart
    \/ FineDeadline
    \/ FineWait
    \/ FineTimeout
    \/ FineLoad
    \/ FineRollback
    \/ \E n \in Nodes : FineEntry(n)
    \/ \E n \in Nodes : FineBody(n)
    \/ \E n \in Nodes : FineReserve(n)
    \/ \E n \in Nodes : FineSlot(n)
    \/ \E n \in Nodes : FineRecord(n)

SpecFine == InitFine /\ [][NextFine]_vars

\* ---------------------------------------------------------------- mapStore
\* One mapStore used by two goroutines that call Store, MaxStores times each, and
\* one goroutine that calls Load (record cow):
\*   heap   the maps allocated so far; a map is a function from the keys to the
\*          values, NoValue for a key it does not hold
\*   ptr    s.ptr: the index in heap of the current map
\*   w      w[i]: writer i: pc ("idle", "load", "copy", "cas"), key, val, oldMapPtr
\*          (old), &newMap (new), the number n of Store calls that returned
\*   r      the reader: pc ("idle", "read", "got"), key, the pointer it loaded (p),
\*          the map as it was then (snap), the value it got; must: the number of
\*          Store calls that had taken effect when Load was called
\*   eff    the Store calls whose CompareAndSwap succeeded, in that order
\*   failed TRUE when a CompareAndSwap has failed
CowKeys == 1..2
Writers == TwoCalls

\* NewMapStore
InitCow ==
    /\ \E kind \in [Edges -> {"none"}] : Built(kind)
    /\ ff = None
    /\ timeout = None
    /\ after = None
    /\ pre = None
    /\ retry = [n \in Nodes |-> 0]
    /\ rollback = None
    /\ Limit = 0
    /\ Timeout = FALSE
    /\ Pre = FALSE
    /\ After = FALSE
    /\ panics = FALSE
    /\ storer = FALSE
    /\ nilValues = FALSE
    /\ InitCall
    /\ FlatIdle
    /\ CallsIdle
    /\ FineIdle
    /\ cow = [heap |-> <<[k \in CowKeys |-> NoValue]>>, ptr |-> 1,
              w |-> [i \in Writers |-> [pc |-> "idle", key |-> 0, val |-> NoValue,
                                        old |-> 0, new |-> 0, n |-> 0]],
              r |-> [pc |-> "idle", key |-> 0, p |-> 0, snap |-> <<>>, got |-> NoValue,
                     must |-> 0],
              eff |-> <<>>, failed |-> FALSE]

cowFrame == UNCHANGED <<goVars, flat, goCalls, fine>>

\* a Store that writes into the map it loaded
CopyOnWrite_inPlace(heap, old, k, v) ==
    [heap |-> [heap EXCEPT ![old][k] = v], new |-> old]

\* newMap := make(...); copy of *oldMapPtr; newMap[key] = value
CopyOnWrite(heap, old, k, v) ==
    [heap |-> Append(heap, [heap[old] EXCEPT ![k] = v]), new |-> Len(heap) + 1]

\* writer i calls Store(k, v) with a value no other call stores
CowStore(i, k) ==
    /\ cow.w[i].pc = "idle"
    /\ cow.w[i].n < MaxStores
    /\ cow' = [cow EXCEPT !.w[i].pc = "load", !.w[i].key = k,
                          !.w[i].val = Value(MaxStores * (i - 1) + cow.w[i].n + 1)]
    /\ cowFrame

\* oldMapPtr := s.ptr.Load()
CowPtrLoad(i) ==
    /\ cow.w[i].pc = "load"
    /\ cow' = [cow EXCEPT !.w[i].pc = "copy", !.w[i].old = cow.ptr]
    /\ cowFrame

\* the copy of the loaded map with the new entry
CowCopy(i) ==
    /\ cow.w[i].pc = "copy"
    /\ LET c == CopyOnWrite(cow.heap, cow.w[i].old, cow.w[i].key, cow.w[i].val)
       IN cow' = [cow EXCEPT !.heap = c.heap, !.w[i].new = c.new, !.w[i].pc = "cas"]
    /\ cowFrame

\* s.ptr.CompareAndSwap(oldMapPtr, &newMap): Store returns when it succeeds and
\* starts over when it fails
CowCAS(i) ==
    /\ cow.w[i].pc = "cas"
    /\ IF cow.ptr = cow.w[i].old
       THEN cow' = [cow EXCEPT !.ptr = cow.w[i].new,
                               !.eff = Append(@, [key |-> cow.w[i].key, val |-> cow.w[i].val]),
                               !.w[i].pc = "idle", !.w[i].n = @ + 1]
       ELSE cow' = [cow EXCEPT !.w[i].pc = "load", !.failed = TRUE]
    /\ cowFrame

\* Load(k), first half: s.ptr.Load()
CowLoadPtr(k) ==
    /\ cow.r.pc \in {"idle", "got"}
    /\ cow' = [cow EXCEPT !.r = [pc |-> "read", key |-> k, p |-> cow.ptr,
                                 snap |-> cow.heap[cow.ptr], got |-> NoValue,
                                 must |-> Len(cow.eff)]]
    /\ cowFrame

\* Load(k), second half: the index expression on the loaded map
CowLoadRead ==
    /\ cow.r.pc = "read"
    /\ cow' = [cow EXCEPT !.r.pc = "got", !.r.got = cow.heap[cow.r.p][cow.r.key]]
    /\ cowFrame

NextCow ==
    \/ \E i \in Writers : \E k \in CowKeys : CowStore(i, k)
    \/ \E i \in Writers : CowPtrLoad(i)
    \/ \E i \in Writers : CowCopy(i)
    \/ \E i \in Writers : CowCAS(i)
    \/ \E k \in CowKeys : CowLoadPtr(k)
    \/ CowLoadRead

SpecCow == InitCow /\ [][NextCow]_vars

\* ---------------------------------------------------------------- properties
\* Dep and WeakDep both append to n.deps; WeakDep also appends to the parent's weakTo
WeakDeps(n) == {p \in Range(deps[n]) : n \in Range(weakTo[p])}
StrongDeps(n) == Range(deps[n]) \ WeakDeps(n)

\* the worker of n ran its deferred function: after hook, wrap and record
Completed(n) == pc[n] \in {"notify", "spawn", "done"} /\ body[n] # "idle"

\* the worker of n returned at its ctx check
Skipped(n) == pc[n] = "done" /\ body[n] = "idle"

\* an attempt of n's task body has started
Started(n) == runs[n] > 0

\* C1 as stated: the body of n never starts before the body of every strong
\* parent of n has returned successfully and that parent's after hook has finished.
C1_AsStated ==
    \A n \in Nodes : \A p \in StrongDeps(n) :
        Started(n) => /\ Completed(p)
                      /\ Started(p) /\ body[p] = "done" /\ bodyErr[p] = Nil

\* C1: the body of n never starts before the worker of every strong parent p of n
\* has finished its after hook with a nil final error; for a parent without after
\* hook that is: p's body has returned successfully.
C1_StrongOrder ==
    \A n \in Nodes : \A p \in StrongDeps(n) :
        Started(n) => /\ Completed(p)
                      /\ groupErrs[p] = Nil
                      /\ ~after[p] => /\ Started(p)
                                      /\ body[p] = "done" /\ bodyErr[p] = Nil

\* a node runs after a strong parent whose failure or timeout the after hook suppressed
C1_Witness ==
    \E n \in Nodes : \E p \in StrongDeps(n) :
        Started(n) /\ (bodyErr[p] # Nil \/ Running(p))

\* C2: a node with a strong dependency on a node whose worker ended with an error
\* (recorded, or the ctx error of the entry check) is never dispatched: its worker
\* never starts, so neither pre hook, body, after hook nor rollback tracking run.
C2_NeverDispatched ==
    \A x \in Nodes : \A f \in StrongDeps(x) :
        (groupErrs[f] # Nil \/ Skipped(f)) =>
            /\ pc[x] = "idle"
            /\ body[x] = "idle" /\ ~Started(x)
            /\ groupErrs[x] = Nil
            /\ x \notin {tracker.order[i] : i \in 1..tracker.cnt}

\* Go has returned; a node with a failed strong parent has a weak parent that
\* completed and notified it
C2_Witness ==
    /\ mainPc = "returned"
    /\ \E x \in Nodes : \E f \in StrongDeps(x) : \E w \in WeakDeps(x) :
        groupErrs[f] # Nil /\ Completed(w) /\ pc[w] = "done" /\ pc[x] = "idle"

\* C3 as stated: the body of n never starts while the body of a weak parent of n
\* is still in progress.
C3_AsStated ==
    \A n \in Nodes : \A p \in WeakDeps(n) : Started(n) => ~Running(p)

\* C3: the body of n never starts before the worker of every weak parent p of n
\* has finished (after hook included); p's body is then still in progress only
\* when p's per-node timeout has fired.
C3_WeakOrder ==
    \A n \in Nodes : \A p \in WeakDeps(n) :
        Started(n) => /\ Completed(p)
                      /\ Running(p) => timedOut[p]

\* a node runs after a weak parent that failed
C3_Witness ==
    \E n \in Nodes : \E p \in WeakDeps(n) : Started(n) /\ groupErrs[p] # Nil

\* no worker returned an error to the errgroup (no fast-fail failure, no cancelled
\* ctx seen at an entry check) and the group deadline did not pass
Undisturbed == egErr = Nil /\ ctxDone # "deadline"

\* C4 as stated: when Go has returned, a node x with a weak dependency on a node
\* whose worker ended with an error, and with no failed strong dependency, was
\* dispatched, ran its body and has its outcome recorded.
C4_AsStated ==
    mainPc = "returned" =>
        \A x \in Nodes : \A f \in WeakDeps(x) :
            (/\ groupErrs[f] # Nil
             /\ \A s \in StrongDeps(x) : groupErrs[s] = Nil /\ ~Skipped(s))
            => Started(x) /\ Completed(x)

\* C4: when Go has returned, no worker returned an error to the errgroup (no
\* fast-fail failure, no cancellation) and no group deadline passed, a node x with a failed weak parent, all of
\* whose parents have completed, the strong ones without error, was dispatched and
\* its worker completed: its outcome is recorded.
C4_WeakContinuation ==
    (mainPc = "returned" /\ Undisturbed) =>
        \A x \in Nodes : \A f \in WeakDeps(x) :
            (/\ groupErrs[f] # Nil
             /\ \A p \in Range(deps[x]) : Completed(p)
             /\ \A s \in StrongDeps(x) : groupErrs[s] = Nil)
            => Completed(x) /\ (Started(x) \/ pre[x])

\* Go has returned without errgroup error; a node ran after its weak parent failed
C4_Witness ==
    /\ mainPc = "returned" /\ Undisturbed
    /\ \E x \in Nodes : \E f \in WeakDeps(x) :
        groupErrs[f] # Nil /\ Completed(x) /\ StrongDeps(x) # {}

\* C5 as stated: at no instant are more task bodies in progress than the limit.
C5_AsStated == Cardinality({n \in Nodes : Running(n)}) <= limit

\* C5: at no instant do more workers hold a slot of the pool than the limit, so at
\* most that many task bodies are in progress apart from the bodies that a
\* per-node timeout has left running.
C5_ConcurrencyBound ==
    /\ Cardinality(Active) <= limit
    /\ Cardinality({n \in Nodes : Running(n) /\ ~timedOut[n]}) <= limit

\* under a limit of 1 a body runs while the body of a timed-out node still runs
\* and a third node waits for a slot
C5_Witness ==
    /\ Limit = 1
    /\ \E n \in Nodes : \E m \in Nodes \ {n} :
        Running(n) /\ timedOut[n] /\ Running(m) /\ ~timedOut[m] /\ left[m] < retry[m]
    /\ mainPc = "roots"

\* C6 as stated, for the part that is a property of states: Go has returned, or
\* some step of Go, of a worker or of a body is possible; no run ends with a
\* worker blocked in eg.Go on a pool whose slots are all held.
C6_AsStated == mainPc = "returned" \/ ENABLED Next

\* every hook and every attempt of every body that ran returned nil, no per-node
\* timeout fired, the ctx was not cancelled by its owner or by the group deadline
AllSucceeded ==
    /\ \A n \in Nodes : bodyErr[n] = Nil /\ runs[n] <= 1 /\ groupErrs[n] = Nil
    /\ err \notin {GroupPreErr, GroupAfterErr}
    /\ \A n \in Nodes : ~timedOut[n]
    /\ ctxDone \notin {"parent", "deadline"}

\* C7: when Go has returned and every body, pre hook and after hook that ran
\* succeeded, without cancellation or timeout, every node's body ran exactly once, Go's result is nil and no
\* rollback hook was invoked.
C7_FullSuccess ==
    (mainPc = "returned" /\ AllSucceeded) =>
        /\ \A n \in Nodes : runs[n] = 1 /\ body[n] = "done" /\ Completed(n)
        /\ err = Nil
        /\ rolled = <<>>

\* Go has returned from a run without failure, on a graph with rollback hooks, a
\* strong and a weak dependency
C7_Witness ==
    /\ mainPc = "returned" /\ AllSucceeded
    /\ tracker.cnt = NumNodes
    /\ \E n \in Nodes : StrongDeps(n) # {} /\ WeakDeps(n) # {}

\* the nodes that depend on n
Successors(n) == {m \in Nodes : n \in Range(deps[m])}

\* the nodes with a recorded error none of whose successors has a recorded error
Leaves ==
    {n \in Nodes : groupErrs[n] # Nil /\ \A m \in Successors(n) : groupErrs[m] = Nil}

\* C8: once eg.Wait has returned nil (no fast-fail error, no cancellation, no
\* group timeout), the error Go has before rollback and After is nil when no node
\* is in Leaves, the recorded error of the node when there is one, and the join of
\* the recorded errors of the nodes in Leaves, in insertion order, otherwise.
C8_LeafAggregation ==
    (mainPc \in {"rollback", "after", "returned"} /\ Undisturbed) =>
        leafErr = IF Leaves = {} THEN Nil
                  ELSE IF Cardinality(Leaves) = 1
                       THEN groupErrs[CHOOSE n \in Leaves : TRUE]
                       ELSE [tag |-> "join",
                             errs |-> [i \in 1..Cardinality(Leaves) |->
                                          groupErrs[SortedSeq(Leaves)[i]]]]

\* the result joins two leaves and leaves out a failed node with a failed successor
C8_Witness ==
    /\ mainPc = "returned" /\ Undisturbed
    /\ Cardinality(Leaves) = 2
    /\ \E n \in Nodes \ Leaves : groupErrs[n] # Nil

\* the nodes from which n is reachable along dependency edges
RECURSIVE Ancestors(_)
Ancestors(n) == Range(deps[n]) \cup UNION {Ancestors(p) : p \in Range(deps[n])}

\* the nodes from which n is reachable along edges between nodes with recorded errors
RECURSIVE FailedChain(_)
FailedChain(n) ==
    LET failed == {p \in Range(deps[n]) : groupErrs[p] # Nil}
    IN failed \cup UNION {FailedChain(p) : p \in failed}

\* C9 as stated: the error recorded for a node contains the recorded error of
\* every failed ancestor of the node.
C9_AsStated ==
    \A n \in Nodes : groupErrs[n] # Nil =>
        \A a \in Ancestors(n) : groupErrs[a] # Nil => Is(groupErrs[n], groupErrs[a])

\* C9: the error recorded for a node contains the recorded error of every failed
\* ancestor from which the node is reachable through failed nodes only.
C9_AncestorContainment ==
    \A n \in Nodes : groupErrs[n] # Nil =>
        \A a \in FailedChain(n) : Is(groupErrs[n], groupErrs[a])

\* a failed node whose failed parent has a failed parent that is not its own parent
C9_Witness ==
    \E n \in Nodes : \E p \in Range(deps[n]) : \E a \in Range(deps[p]) \ Range(deps[n]) :
        groupErrs[n] # Nil /\ groupErrs[p] # Nil /\ groupErrs[a] # Nil

\* a fast-fail node's error is what eg.Wait returns: a fast-fail node failed and no
\* worker returned the ctx error of its entry check before it
FastFailFirst == ffOrder # <<>> /\ egErr \notin {Nil, Canceled, DeadlineExceeded}

\* the errors a worker of n can end with before wrapping
OwnErrs(n) ==
    {TaskErr(n, k) : k \in 1..(MaxRetry + 1)}
        \cup {PanicErr(n), PreErr(n), AfterErr(n), NodeTimeoutErr(n)}

\* the wrapped error of a failed node: its own error, with the recorded errors of
\* its failed direct dependencies if any
IsWrappedErrorOf(e, n) ==
    LET failed == {p \in Range(deps[n]) : groupErrs[p] # Nil}
    IN IF failed = {}
       THEN e \in OwnErrs(n)
       ELSE /\ e.tag = "group" /\ e.err \in OwnErrs(n)
            /\ Range(e.upstreams) = {groupErrs[p] : p \in failed}
            /\ Len(e.upstreams) = Cardinality(failed)

C11_ShortCircuit ==
    /\ [](\A f \in Range(ffOrder) : pc[f] = "done" /\ nidx[f] = 0)
    /\ [][ffOrder # <<>> =>
            \A n \in Nodes :
                /\ preCalls'[n] = preCalls[n]
                /\ pc[n] \in {"idle", "entry"} => pc'[n] # "exec" /\ body'[n] = "idle"]_vars

\* a worker dispatched before or after a fast-fail failure left at its ctx check,
\* and the failed fast-fail node has a weak successor
C11_Witness ==
    /\ mainPc = "returned"
    /\ ctxDone = "errgroup"
    /\ \E n \in Nodes : Skipped(n)
    /\ \E f \in Range(ffOrder) : weakTo[f] # <<>>

\* the nodes from which n is reachable along strong dependency edges
RECURSIVE StrongAncestors(_)
StrongAncestors(n) == StrongDeps(n) \cup UNION {StrongAncestors(p) : p \in StrongDeps(n)}

\* n cannot become ready: a strong parent of n has a recorded error, or a parent
\* of n, strong or weak, cannot become ready itself
RECURSIVE Blocked(_)
Blocked(n) ==
    \E p \in Range(deps[n]) : Blocked(p) \/ (p \in StrongDeps(n) /\ groupErrs[p] # Nil)

\* while no fast-fail node has failed, no worker has handed an error of a node to
\* the errgroup and only eg.Wait cancels the errgroup's ctx
NonFastFailQuiet ==
    ffOrder = <<>> =>
        /\ egErr \in {Nil, Canceled, DeadlineExceeded}
        /\ ctxDone = "errgroup" => mainPc \in {"assemble", "rollback", "after", "returned"}

\* C12 as stated: a failure of a non-fast-fail node hands no error to the pool and
\* cancels nothing, and when Go has returned from a run without fast-fail failure
\* and cancellation every node without failed strong ancestor has run its body.
C12_AsStated ==
    /\ NonFastFailQuiet
    /\ (mainPc = "returned" /\ Undisturbed) =>
            \A n \in Nodes :
                (\A a \in StrongAncestors(n) : groupErrs[a] = Nil) => Started(n)

\* C12: a failure of a non-fast-fail node hands no error to the pool and cancels
\* nothing, and when Go has returned from a run without fast-fail failure,
\* cancellation and group Pre error every node has completed and started its body (unless its own pre
\* hook failed), except the nodes that cannot become ready: those with a failed
\* strong parent and, transitively, those with a parent that cannot become ready.
C12_NoCancelOnFailure ==
    /\ NonFastFailQuiet
    /\ (mainPc = "returned" /\ Undisturbed /\ err # GroupPreErr) =>
            \A n \in Nodes :
                ~Blocked(n) => Completed(n) /\ (Started(n) \/ bodyErr[n] = PreErr(n))

\* Go has returned; a node failed, its weak successor ran, and another node could
\* not become ready
C12_Witness ==
    /\ mainPc = "returned" /\ Undisturbed
    /\ \E f \in Nodes : \E n \in Range(weakTo[f]) : groupErrs[f] # Nil /\ Started(n)
    /\ \E n \in Nodes : Blocked(n)

\* the attempts of n's body, the pre hook and the after hook as the wrappers run
\* them: at most 1+R attempts, each but the last one ended with a returned error,
\* the pre hook is called once when execF starts and the after hook once when the
\* worker completes
RetryDiscipline(n) ==
    /\ runs[n] <= 1 + retry[n]
    /\ runs[n] = Len(results[n]) + (IF Running(n) THEN 1 ELSE 0)
    /\ \A i \in 1..(Len(results[n]) - 1) : results[n][i] = "err"
    /\ preCalls[n] = (IF pre[n] /\ body[n] # "idle" THEN 1 ELSE 0)
    /\ afterCalls[n] = (IF after[n] /\ Completed(n) THEN 1 ELSE 0)

\* execF of n ended with an error that is not the pre hook's
BodyFailed(n) == body[n] = "done" /\ bodyErr[n] \notin {Nil, PreErr(n)}

\* C13 as stated: at most 1+R attempts, a further attempt only after a failed one,
\* none after a successful one, pre hook and after hook once; the body fails, with
\* the last attempt's error, only if all 1+R attempts failed.
C13_AsStated ==
    \A n \in Nodes :
        /\ RetryDiscipline(n)
        /\ BodyFailed(n) => /\ Len(results[n]) = 1 + retry[n]
                            /\ bodyErr[n] = TaskErr(n, 1 + retry[n])

\* C13: at most 1+R attempts, a further attempt only after an attempt that
\* returned an error, none after a successful one, pre hook and after hook once;
\* the body fails with the last attempt's error when all 1+R attempts returned an
\* error, or, without further attempt, when an attempt panicked.
C13_Retry ==
    \A n \in Nodes :
        /\ RetryDiscipline(n)
        /\ BodyFailed(n) =>
            \/ /\ Len(results[n]) = 1 + retry[n]
               /\ results[n][Len(results[n])] = "err"
               /\ bodyErr[n] = TaskErr(n, 1 + retry[n])
            \/ /\ results[n][Len(results[n])] = "panic"
               /\ bodyErr[n] = PanicErr(n)

\* a node succeeded at its second attempt, another failed all its attempts, both
\* completed
C13_Witness ==
    \E n \in Nodes : \E m \in Nodes :
        /\ results[n] = <<"err", "ok">> /\ Completed(n)
        /\ results[m] = <<"err", "err">> /\ Completed(m)

\* n's pre hook returned an error: execF ended with it
PreFailed(n) == body[n] = "done" /\ bodyErr[n] = PreErr(n)

\* the error the worker of n ended with, before wrapError
OwnErr(n) == IF groupErrs[n].tag = "group" THEN groupErrs[n].err ELSE groupErrs[n]

\* C14 as stated: when the pre hook of n returned an error, n's body is never
\* executed, and once the worker has completed the after hook was called with that
\* error, n is recorded as failed with it and no strong successor is dispatched.
C14_AsStated ==
    \A n \in Nodes : PreFailed(n) =>
        /\ runs[n] = 0 /\ results[n] = <<>>
        /\ Completed(n) =>
            /\ after[n] => afterCalls[n] = 1 /\ afterArg[n] = PreErr(n)
            /\ OwnErr(n) = PreErr(n)
            /\ \A x \in Nodes : n \in StrongDeps(x) => pc[x] = "idle"

\* C14: when the pre hook of n (a node without timeout) returned an error, n's
\* body is never executed, and once the worker has completed the after hook, if
\* any, was called once with that error; n is recorded with what the after hook
\* returned (with the pre hook's error when there is no after hook); while n has a
\* recorded error no strong successor is dispatched.
C14_PreFailure ==
    \A n \in Nodes : (PreFailed(n) /\ ~timedOut[n]) =>
        /\ runs[n] = 0 /\ results[n] = <<>>
        /\ Completed(n) =>
            /\ after[n] => /\ afterCalls[n] = 1 /\ afterArg[n] = PreErr(n)
                           /\ OwnErr(n) \in {Nil, PreErr(n), AfterErr(n)}
            /\ ~after[n] => OwnErr(n) = PreErr(n)
            /\ groupErrs[n] # Nil =>
                \A x \in Nodes : n \in StrongDeps(x) => pc[x] = "idle" /\ ~Started(x)

\* Go has returned; the pre hook of a node with retries, an after hook, a strong
\* and a weak successor failed, the after hook kept the error, the weak successor ran
C14_Witness ==
    /\ mainPc = "returned"
    /\ \E n \in Nodes : \E x \in Nodes : \E w \in Nodes :
        /\ PreFailed(n) /\ retry[n] > 0 /\ after[n] /\ OwnErr(n) = PreErr(n)
        /\ n \in StrongDeps(x) /\ n \in WeakDeps(w) /\ Started(w)

\* what the worker of a completed node n ended with before its after hook: the
\* timeout error when it took the timeout branch, what execF returned otherwise
RawErr(n) == IF timedOut[n] THEN NodeTimeoutErr(n) ELSE bodyErr[n]

\* the after hook of a completed node was called once with the worker's unwrapped
\* error; what it returned (the worker's error itself without after hook) is what
\* is wrapped and recorded
AfterDiscipline(n) ==
    /\ afterCalls[n] = (IF after[n] /\ Completed(n) THEN 1 ELSE 0)
    /\ Completed(n) =>
        /\ after[n] => afterArg[n] = RawErr(n) /\ OwnErr(n) \in {RawErr(n), Nil, AfterErr(n)}
        /\ ~after[n] => OwnErr(n) = RawErr(n)
        /\ groupErrs[n] # Nil => groupErrs[n] = wrapError(n, OwnErr(n), groupErrs)

\* all workers have returned and Go has returned
Quiescent == mainPc = "returned" /\ Active = {} /\ err # GroupPreErr

\* C15 as stated: the after hook is called exactly once, with the unwrapped error,
\* its result is what is wrapped and recorded, and (seen when all workers have
\* returned) a node without recorded error has notified all its successors, a
\* node with a recorded error its weak successors.
C15_AsStated ==
    /\ \A n \in Nodes : AfterDiscipline(n)
    /\ Quiescent =>
        \A x \in Nodes :
            indegree[x] = Len(deps[x]) - Cardinality({p \in Range(deps[x]) :
                Completed(p) /\ (groupErrs[p] = Nil \/ p \in WeakDeps(x))})

\* C15: the after hook is called exactly once, with the unwrapped error, its
\* result is what is wrapped and recorded, and (seen when all workers have
\* returned) a node without recorded error has notified all its successors, a
\* node with a recorded error its weak successors unless it is fast-fail: a
\* failed fast-fail node has notified none.
C15_AfterDiscipline ==
    /\ \A n \in Nodes : AfterDiscipline(n)
    /\ Quiescent =>
        \A x \in Nodes :
            indegree[x] = Len(deps[x]) - Cardinality({p \in Range(deps[x]) :
                Completed(p) /\ (groupErrs[p] = Nil \/ (p \in WeakDeps(x) /\ ~ff[p]))})

\* all workers have returned; an after hook suppressed a timeout, another replaced
\* an error, and a node with a failed dependency recorded a wrapped error
C15_Witness ==
    /\ Quiescent
    /\ \E n \in Nodes : after[n] /\ Completed(n) /\ timedOut[n] /\ groupErrs[n] = Nil
    /\ \E n \in Nodes : after[n] /\ RawErr(n) \notin {Nil, AfterErr(n)} /\ OwnErr(n) = AfterErr(n)
    /\ \E n \in Nodes : groupErrs[n].tag = "group"

\* Go returned the error of the group Pre interceptor
GroupPreFailed == Pre /\ err = GroupPreErr

C17_AsStated == (After /\ mainPc = "returned") => AfterCalls = 1

\* C17: with a group After interceptor, every Go call that got past the group Pre
\* interceptor invokes After exactly once, as its last step, however the run ended
\* (success, task failure, fast-fail, cancellation, group timeout), and returns
\* what After returns; a call that ends with an error of the group Pre
\* interceptor does not invoke After.
C17_GroupAfter ==
    /\ [](After => AfterCalls <= 1)
    /\ []((After /\ mainPc = "returned") => AfterCalls = (IF GroupPreFailed THEN 0 ELSE 1))
    /\ [][(mainPc # "returned" /\ mainPc' = "returned" /\ After /\ err' # GroupPreErr) =>
            /\ mainPc = "after"
            /\ AfterCalls' = AfterCalls + 1
            /\ err' \in {err, Nil, GroupAfterErr}]_vars

\* Go returned after the group deadline: After was called once with the
\* group-timeout error and Go returned the nil it answered
C17_Witness ==
    /\ After /\ mainPc = "returned"
    /\ leafErr = GroupTimeoutErr
    /\ AfterCalls = 1
    /\ err = Nil

\* the deferred assembly is past tracker.rollback
PastRollback == mainPc \in {"after", "returned"} /\ ~GroupPreFailed

\* the rollback hooks were called after every worker had returned, for the tracked
\* nodes, last tracked first
RollbackAfterWait ==
    rolled # <<>> => /\ Active = {}
                     /\ rolled = ReverseOrder(tracker.order, tracker.cnt)

\* C18 as stated: when Go ends with a non-nil error the rollback hooks are invoked
\* only after every worker has finished, in exactly the reverse of the order in
\* which the workers were tracked; when the aggregated error is nil no rollback
\* hook is invoked.
C18_AsStated ==
    /\ RollbackAfterWait
    /\ PastRollback =>
        IF leafErr = Nil THEN rolled = <<>>
        ELSE tracker.on => rolled = ReverseOrder(tracker.order, tracker.cnt)

\* Go returned the group-timeout error after calling the rollback hook of a node
\* tracked before the deadline, while another worker was still running
C18_Witness ==
    /\ PastRollback
    /\ leafErr = GroupTimeoutErr
    /\ rolled # <<>>
    /\ \E n \in Nodes : pc[n] = "exec" /\ rollback[n]

\* how many times the rollback hook of n was called
RollbackCalls(n) == Cardinality({i \in 1..Len(rolled) : rolled[i] = n})

\* the worker of n got past its ctx check
PassedEntry(n) == pc[n] \in {"exec", "notify", "spawn", "done"} /\ ~Skipped(n)

\* C19 as stated: once rollback has run, the rollback hook of a node was invoked
\* exactly once if the node declared a rollback and its worker passed the entry
\* ctx check, and not at all otherwise.
C19_AsStated ==
    (PastRollback /\ leafErr # Nil) =>
        \A n \in Nodes :
            RollbackCalls(n) = (IF rollback[n] /\ PassedEntry(n) THEN 1 ELSE 0)

\* Go returned the group-timeout error after the rollback phase; a node that
\* declared a rollback and passed its ctx check was not rolled back
C19_Witness ==
    /\ mainPc = "returned"
    /\ leafErr = GroupTimeoutErr
    /\ rolled # <<>>
    /\ \E n \in Nodes : rollback[n] /\ PassedEntry(n) /\ RollbackCalls(n) = 0

\* Go is past its wait for the workers
PastWait == mainPc \in {"assemble", "rollback", "after", "returned"} /\ ~GroupPreFailed

\* the select of the outer timeout control returned the group-timeout error
TimeoutReturn == IF mainPc = "assemble" THEN err = GroupTimeoutErr ELSE leafErr = GroupTimeoutErr

\* C20 as stated: when the group deadline elapsed before all workers had finished
\* (a worker found the deadline passed at its ctx check), Go returns the
\* group-timeout error, never a worker's ctx error and never nil.
C20_AsStated ==
    (mainPc = "returned" /\ ctxDone = "deadline" /\ \E n \in Nodes : Skipped(n)) =>
        err = GroupTimeoutErr

\* C20, what the code guarantees: when Go, waiting in the select of its outer timeout control, finds the
\* group deadline passed while workers are still running, it stops waiting and
\* returns the group-timeout error (which then goes through the deferred
\* assembly: rollback errors are joined to it and After may replace it); this is
\* the only way Go gets past its wait with workers running.  When every worker
\* has returned by the time Go looks, Go may return the result of eg.Wait.
C20_GroupTimeout ==
    /\ []((PastWait /\ Active # {}) => (Timeout /\ ctxDone = "deadline" /\ TimeoutReturn))
    /\ []((PastWait /\ TimeoutReturn) => (Timeout /\ ctxDone = "deadline"))
    /\ []((mainPc = "returned" /\ TimeoutReturn /\ ~After /\ ~tracker.on) => err = GroupTimeoutErr)
    /\ [][(mainPc = "wait" /\ mainPc' # "wait" /\ Timeout /\ ctxDone = "deadline" /\ Active # {}) =>
            (mainPc' = "assemble" /\ err' = GroupTimeoutErr)]_vars

\* the group deadline passed before the worker of a root got to its ctx check;
\* the worker returned ctx.Err(), eg.Wait's result was ready when Go looked, and
\* Go returned context.DeadlineExceeded
C20_Witness ==
    /\ mainPc = "returned"
    /\ Timeout /\ ctxDone = "deadline"
    /\ \E n \in Roots : Skipped(n)
    /\ err = DeadlineExceeded

\* C21 as stated: when Go returns the group-timeout error, no rollback hook was
\* invoked during the call, also not for nodes tracked before the deadline.
C21_AsStated == (PastRollback /\ TimeoutReturn) => rolled = <<>>

\* Go returned the group-timeout error and has called the rollback hook of a node
\* that had completed before the deadline
C21_Witness ==
    /\ mainPc = "returned"
    /\ TimeoutReturn
    /\ \E n \in Nodes : RollbackCalls(n) = 1 /\ pc[n] = "done" /\ Completed(n)

\* the error the rollback phase was entered with is in e and was not replaced
KeepsOriginal(e, original) ==
    \/ e = original
    \/ e.tag = "join" /\ e.errs[1] = original

\* C22: the rollback phase attempts the rollback of every tracked node, whatever
\* the earlier rollbacks returned; the error that leaves the phase (the one the
\* group After interceptor receives, returned by Go unless After replaces it)
\* contains the original error and the error of every failed rollback, each
\* matchable with errors.Is, and no error of a rollback that returned nil; it
\* is the original error itself when every rollback returned nil.
C22_RollbackErrors ==
    [][(mainPc = "rollback" /\ mainPc' = "after" /\ err # Nil /\ tracker.on) =>
        /\ Range(rolled') = {tracker.order[i] : i \in 1..tracker.cnt}
        /\ Len(rolled') = tracker.cnt
        /\ KeepsOriginal(err', err)
        /\ Is(err', err)
        /\ \A n \in Nodes : Is(err', RollbackHookErr(n)) <=> n \in rbFailed'
        /\ rbFailed' = {} => err' = err]_vars

\* past the rollback phase: the first rollback called failed, a later one was
\* still called and failed too
C22_Witness ==
    /\ PastRollback /\ ~TimeoutReturn
    /\ Len(rolled) >= 2
    /\ rolled[1] \in rbFailed
    /\ rolled[Len(rolled)] \in rbFailed
    /\ \E n \in Range(rolled) : n \notin rbFailed

\* every parent of x has completed and notified x
AllNotified(x) ==
    \A p \in Range(deps[x]) :
        Completed(p) /\ pc[p] = "done" /\ (groupErrs[p] = Nil \/ (p \in WeakDeps(x) /\ ~ff[p]))

\* C23 as stated: a node whose worker took the timeout branch is recorded as
\* failed, its after hook was called with the timeout error, its strong
\* successors are never dispatched, its weak successors are dispatched when the
\* run is over, and the timeouts cancel no ctx.
C23_AsStated ==
    /\ \A n \in Nodes : timedOut[n] =>
        /\ groupErrs[n] # Nil
        /\ after[n] => afterCalls[n] = 1 /\ afterArg[n] = NodeTimeoutErr(n)
        /\ \A x \in Nodes : n \in StrongDeps(x) => pc[x] = "idle"
        /\ Quiescent => \A x \in Nodes :
              (n \in WeakDeps(x) /\ \A p \in Range(deps[x]) : Completed(p) /\ (groupErrs[p] = Nil \/ p \in WeakDeps(x)))
                  => PassedEntry(x)
    /\ (mainPc \in {"roots", "wait"} /\ \A f \in Range(ffOrder) : timedOut[f]) => ctxDone = "no"

\* C23: the worker of a node whose own deadline passes during execF ends with the
\* node-timeout error without waiting for execF; the after hook, if any, is
\* called once with that error and what it returns is recorded (the timeout
\* error itself without after hook).  While the node has a recorded error its
\* strong successors are never dispatched; when the run is over with no ctx
\* cancelled, each weak successor whose parents have all notified it was
\* dispatched.  The step cancels no ctx unless the node is fast-fail and ends
\* with an error.
C23_NodeTimeout ==
    /\ [](\A n \in Nodes : timedOut[n] =>
            /\ timeout[n] /\ Completed(n)
            /\ after[n] => /\ afterCalls[n] = 1 /\ afterArg[n] = NodeTimeoutErr(n)
                           /\ OwnErr(n) \in {NodeTimeoutErr(n), Nil, AfterErr(n)}
            /\ ~after[n] => OwnErr(n) = NodeTimeoutErr(n)
            /\ groupErrs[n] # Nil => \A x \in Nodes : n \in StrongDeps(x) => pc[x] = "idle"
            /\ (Quiescent /\ egErr = Nil) => \A x \in Nodes :
                  (n \in WeakDeps(x) /\ AllNotified(x)) => PassedEntry(x))
    /\ [][\A n \in Nodes : (~timedOut[n] /\ timedOut'[n]) =>
            /\ bodyVars' = bodyVars
            /\ (~ff[n] \/ groupErrs'[n] = Nil) => (ctxDone' = ctxDone /\ egErr' = egErr)]_vars

\* the run is over: a node timed out while its body was running and is recorded
\* with the timeout error; a weak successor ran, a strong successor did not,
\* and the ctx was not cancelled before Go's wait ended
C23_Witness ==
    /\ Quiescent /\ egErr = Nil
    /\ \E n, x, w \in Nodes :
        /\ timedOut[n] /\ Running(n)
        /\ OwnErr(n) = NodeTimeoutErr(n)
        /\ n \in StrongDeps(x) /\ pc[x] = "idle"
        /\ n \in WeakDeps(w) /\ Started(w)

\* the ctx given to Go was cancelled by its owner before anything else ended the
\* derived ctx, and Go has returned
ParentCancelled == mainPc = "returned" /\ ctxDone = "parent"

\* C24 as stated: when the parent ctx is cancelled before Go returns, with no
\* fast-fail error or group deadline first, Go returns context.Canceled.
C24_AsStated == (ParentCancelled /\ ffOrder = <<>>) => err = Canceled

\* C24: when the parent ctx is cancelled before Go returns, with no fast-fail
\* error or group deadline first, Go returns context.Canceled if a worker found
\* the ctx cancelled at its entry check; if no worker started after the
\* cancellation, Go returns what the workers left (nil, the error of a failed
\* fast-fail node, or the aggregated errors of the failed nodes), never
\* context.Canceled and never the group-timeout error.  Go returns context.Canceled in no other run.
C24_ParentCancel ==
    /\ ParentCancelled =>
        /\ (ffOrder = <<>> /\ \E n \in Nodes : Skipped(n)) => err = Canceled
        /\ (\A n \in Nodes : ~Skipped(n)) =>
              /\ err = (IF egErr # Nil THEN egErr ELSE leafError(groupErrs))
              /\ err # Canceled
        /\ err # GroupTimeoutErr
    /\ (mainPc = "returned" /\ err = Canceled) => (ctxDone = "parent" /\ \E n \in Nodes : Skipped(n))

\* the parent ctx was cancelled while a body was running; a node dispatched
\* later left at its entry check and Go returned context.Canceled
C24_Witness ==
    /\ ParentCancelled
    /\ err = Canceled
    /\ \E n, m \in Nodes : Started(n) /\ Skipped(m)

\* C25: the worker of a node dispatched after the derived ctx was cancelled (by
\* the parent, a fast-fail error or the group deadline) exits at its entry check
\* with ctx.Err(): its pre hook, body and after hook never run, it is not tracked
\* for rollback, records no error and decrements no successor's counter.
C25_EntryCheck ==
    /\ [](\A n \in Nodes : Skipped(n) =>
            /\ ctxDone # "no"
            /\ egErr # Nil
            /\ preCalls[n] = 0 /\ afterCalls[n] = 0
            /\ runs[n] = 0 /\ results[n] = <<>> /\ ~timedOut[n]
            /\ groupErrs[n] = Nil
            /\ \A i \in 1..tracker.cnt : tracker.order[i] # n
            /\ \A x \in Nodes : n \in Range(deps[x]) => pc[x] = "idle")
    /\ [][\A n \in Nodes : (pc[n] = "entry" /\ ctxDone # "no" /\ pc'[n] # "entry") =>
            /\ pc'[n] = "done" /\ body'[n] = "idle"
            /\ egErr' = (IF egErr = Nil THEN CtxErr ELSE egErr)
            /\ indegree' = indegree /\ tracker' = tracker /\ groupErrs' = groupErrs]_vars

\* a node with pre hook and rollback, dispatched after the group deadline, left at
\* its entry check; its successor was never dispatched
C25_Witness ==
    \E n, x \in Nodes :
        /\ Skipped(n) /\ pre[n] /\ rollback[n]
        /\ ctxDone = "deadline"
        /\ n \in Range(deps[x])
        /\ mainPc = "returned"

\* the node with key a declares the node with key b as a dependency
KeyedEdge(a, b) == \E i \in 1..Len(Graph[a]) : Graph[a][i] = b

\* the keys reachable from key a along one or more dependency edges
ReachableKeys(a) ==
    LET RECURSIVE Grow(_)
        Grow(S) == LET T == S \cup {b \in GraphKeys : \E c \in S : KeyedEdge(c, b)}
                   IN IF T = S THEN S ELSE Grow(T)
    IN Grow({b \in GraphKeys : KeyedEdge(a, b)})

\* the keyed dependency graph has a cycle (a self-dependency included)
HasCycle == \E a \in GraphKeys : a \in ReachableKeys(a)

\* C26: Verify(false) returns a non-empty message exactly when the keyed
\* dependency graph has a cycle; the reported path starts at a keyed node,
\* follows dependency edges and ends with a key that already occurs earlier in
\* it; Verify does not change the group.
C26_CycleDetection ==
    /\ [](verifyMsg.called =>
            LET path == verifyMsg.path IN
            /\ path # <<>> <=> HasCycle
            /\ path # <<>> =>
                /\ Len(path) >= 2
                /\ \A i \in 1..Len(path) : path[i] \in GraphKeys
                /\ \A i \in 1..(Len(path) - 1) : KeyedEdge(path[i], path[i + 1])
                /\ \E i \in 1..(Len(path) - 1) : path[i] = path[Len(path)])
    /\ [][verifyMsg'.called => g' = g]_vars

\* Verify has reported a cycle through three nodes
C26_Witness ==
    /\ verifyMsg.called
    /\ Len(verifyMsg.path) = 4
    /\ Cardinality(Range(verifyMsg.path)) = 3

\* the builder has not panicked: what is checked of the nodes it has built
Intact == ~panicked

\* the position in g.nodes of the node with index i
At(i) == g.nodes[i + 1]

\* s is a sub-list of t
RECURSIVE SubList(_, _)
SubList(s, t) ==
    IF s = <<>> THEN TRUE
    ELSE IF t = <<>> THEN FALSE
    ELSE IF Head(s) = Head(t) THEN SubList(Tail(s), Tail(t))
    ELSE SubList(s, Tail(t))

\* C27: after builder calls that did not panic, (1) no two nodes hold the same
\* (non-nil) key, (2) every node's idx is its position in g.nodes, (3) every
\* index in a node's deps is the index of a node of the group and occurs once,
\* (4) to is the inverse of deps and weakTo is a sub-list of to; a Key with a
\* key already in idxMap and a Dep/WeakDep with an unknown key or an index
\* already in deps panic.
C27_BuilderInvariants ==
    /\ [](Intact =>
            /\ g.x = Len(g.nodes)
            /\ \A i, j \in 1..Len(g.nodes) :
                 (i # j /\ g.nodes[i].key # 0) => g.nodes[i].key # g.nodes[j].key
            /\ \A i \in 1..Len(g.nodes) :
                 LET n == g.nodes[i] IN
                 /\ n.idx = i - 1
                 /\ n.key # 0 => g.idxMap[n.key] = n.idx
                 /\ \A d \in 1..Len(n.deps) : n.deps[d] \in 0..(Len(g.nodes) - 1)
                 /\ \A d, e \in 1..Len(n.deps) : n.deps[d] = n.deps[e] => d = e
                 /\ \A j \in 1..Len(g.nodes) :
                      (j - 1) \in Range(n.to) <=> n.idx \in Range(g.nodes[j].deps)
                 /\ SubList(n.weakTo, n.to))
    /\ [][(Intact /\ Intact' /\ g' # g) =>
            /\ \A k \in Keys : g.idxMap[k] # NoIdx => g'.idxMap[k] = g.idxMap[k]
            /\ \A i \in 1..Len(g.nodes) :
                 /\ SubList(g.nodes[i].deps, g'.nodes[i].deps)
                 /\ \A d \in Range(g'.nodes[i].deps) \ Range(g.nodes[i].deps) :
                      \E k \in Keys : g.idxMap[k] = d]_vars

\* three nodes built without panic: a node re-keyed, a strong and a weak
\* dependency on the same node
C27_Witness ==
    /\ Intact
    /\ Len(g.nodes) = 3
    /\ \E i \in 1..3 : Len(g.nodes[i].to) = 2 /\ Len(g.nodes[i].weakTo) = 1
    /\ \E k \in Keys \ {0} : g.idxMap[k] # NoIdx /\ \A i \in 1..3 : g.nodes[i].key # k

\* C28 as stated: after builder calls that did not panic, every node that
\* appears in some node's deps has a non-nil key.
C28_AsStated ==
    Intact => \A i \in 1..Len(g.nodes) : \A d \in Range(g.nodes[i].deps) : At(d).key # 0

\* a node was given the nil key with Key(nil) and another node depends on it
C28_Witness ==
    /\ Intact
    /\ \E i, j \in 1..Len(g.nodes) :
        /\ i # j
        /\ g.nodes[j].key = 0 /\ g.idxMap[0] = g.nodes[j].idx
        /\ g.nodes[j].idx \in Range(g.nodes[i].deps)

\* the Fetch results of the task body of s for the key of its dependency x, when
\* x called Store in its body and then completed with success
FetchedFrom(s, x) ==
    IF storer /\ key[x] /\ sent[x] # NoValue /\ (\E i \in 1..Len(deps[s]) : deps[s][i] = x)
    THEN {r \in fetched[s] : r.key = x}
    ELSE {}

\* C29 as stated: when the ctx carries a Storer and a keyed node has called
\* Store(ctx, v) and then completed with success, every Fetch of its key in the
\* body of a successor returns (v, true).
C29_AsStated ==
    \A s, x \in Nodes : \A r \in FetchedFrom(s, x) : r.ok /\ r.val = sent[x]

\* C29: when the ctx carries a Storer and a keyed node has called Store(ctx, v)
\* and then completed with success, every Fetch of its key in the body of a
\* successor returns a value the node stored with ok = true, unless that value is
\* a nil interface value, which Fetch returns with ok = false; the value returned
\* is v unless the node completed by its timeout and an attempt of its body,
\* left running, has stored again.  A value is recorded only under the key of the
\* node whose running body stores it.
C29_StoreVisibility ==
    /\ [](\A s, x \in Nodes : \A r \in FetchedFrom(s, x) :
            IF sent[x].nil
            THEN ~r.ok /\ r.val = Zero
            ELSE /\ r.ok
                 /\ r.val = Value(r.val.k)
                 /\ r.val.k \in sent[x].k..runs[x]
                 /\ ~timedOut[x] => r.val = sent[x])
    /\ [][\A n \in Nodes : store'[n] # store[n] =>
            /\ key[n] /\ storer
            /\ body[n] = "running"
            /\ store'[n] = Stored(runs[n])
            /\ \A m \in Nodes \ {n} : store'[m] = store[m]]_vars

\* a node has stored in both attempts of its body and completed with success, and
\* a successor that is not its only successor has fetched the second value
C29_Witness ==
    \E s, x \in Nodes : \E r \in FetchedFrom(s, x) :
        /\ sent[x] = Value(2) /\ ~timedOut[x]
        /\ r.ok /\ r.val = sent[x]
        /\ Len(to[x]) = 2
        /\ store[s] # NoValue

\* execF of n ended with a recovered panic, of the task body or of the pre hook
Crashed(n) == body[n] = "done" /\ bodyErr[n] = PanicErr(n)

\* A recovered panic matches ErrPanic and a returned error is passed on as it is;
\* the worker of a crashed node completes as after any error: the after hook is
\* called once with the error, what it returns is recorded, and while an error is
\* recorded no strong successor is dispatched; nothing is cancelled, and when Go
\* has returned every node that can become ready has completed, the weak
\* successors of the failed nodes included.
CrashHandling ==
    /\ NonFastFailQuiet
    /\ \A n \in Nodes :
        /\ AfterDiscipline(n)
        /\ Crashed(n) => Is(bodyErr[n], ErrPanic) /\ Is(bodyErr[n], PanicValue(n))
        /\ (body[n] = "done" /\ ~Crashed(n)) =>
                /\ bodyErr[n] \in {Nil, PreErr(n), TaskErr(n, runs[n])}
                /\ ~Is(bodyErr[n], ErrPanic)
        /\ (Crashed(n) /\ Completed(n) /\ groupErrs[n] # Nil) =>
                \A x \in Nodes : n \in StrongDeps(x) => pc[x] = "idle" /\ ~Started(x)
    /\ mainPc = "returned" =>
            \A n \in Nodes : ~Blocked(n) => Completed(n) /\ pc[n] = "done"

\* C30 as stated: a panic of a task body or of a pre hook is recovered into an
\* error matching ErrPanic and handled exactly like a returned error, the retry
\* wrapper's handling included: the body of a failed node has used its 1+R
\* attempts.
C30_AsStated ==
    /\ CrashHandling
    /\ \A n \in Nodes : (Crashed(n) /\ runs[n] > 0) => Len(results[n]) = 1 + retry[n]

\* C30: a panic of a task body or of a pre hook is recovered into an error
\* matching ErrPanic, and the worker handles it as it handles a returned error
\* (after hook, record, strong successors blocked, weak successors dispatched,
\* the other nodes run), except that the retry wrapper does not run the body
\* again after a panic; a returned error is passed on unmodified.
C30_CrashTrapping ==
    /\ CrashHandling
    /\ \A n \in Nodes : Crashed(n) =>
            IF runs[n] = 0
            THEN pre[n] /\ preCalls[n] = 1 /\ results[n] = <<>>
            ELSE /\ Len(results[n]) = runs[n]
                 /\ results[n][runs[n]] = "panic"
                 /\ \A i \in 1..(runs[n] - 1) : results[n][i] = "err"

\* Go has returned; the first attempt of a node with a retry panicked and the
\* after hook kept the error; its strong successor was not dispatched and its weak
\* successor, whose pre hook panicked, has completed
C30_Witness ==
    /\ mainPc = "returned"
    /\ \E n, x, w \in Nodes :
        /\ Crashed(n) /\ retry[n] = 1 /\ results[n] = <<"panic">>
        /\ after[n] /\ OwnErr(n) = PanicErr(n)
        /\ n \in StrongDeps(x) /\ pc[x] = "idle"
        /\ n \in WeakDeps(w) /\ Crashed(w) /\ runs[w] = 0 /\ Completed(w)

\* TryGo has returned the limit error
FlatRejected == flat.pc = "returned" /\ flat.err = LimitErr

\* C31 as stated: TryGo rejects the call only when a limit is configured
\* (positive) and smaller than the number of tasks; with options whose limit is
\* not configured it admits every task, and returns (true, nil) when all succeed.
C31_AsStated ==
    /\ FlatRejected => flat.limit > 0 /\ flat.limit < flat.n
    /\ (flat.pc = "returned" /\ ~flat.optsNil /\ flat.limit = 0 /\ flat.n > 0
            /\ ~flat.pre /\ ~flat.after /\ ~flat.timeout) =>
            /\ \A f \in 1..flat.n : flat.task[f] = "done"
            /\ flat.egErr = Nil => flat.ok /\ flat.err = Nil

\* TryGo was called with options without limit and three tasks, and has returned
\* the limit error without running a task
C31_Witness ==
    /\ FlatRejected
    /\ ~flat.optsNil /\ flat.limit = 0 /\ flat.n = 3
    /\ ~flat.ok /\ \A f \in Funcs : flat.task[f] = "none"

\* what call c has in its own slices and workers, as a call running alone has:
\* a body is started at most once, after every dependency has completed in the
\* same call (a strong one with success); the counters count the notifications of
\* this call's workers only; the result is the leaf error of its own groupErrs
OwnRun(c) ==
    LET s == goCalls[c] IN
    /\ \A n \in Nodes :
        /\ s.runs[n] = (IF s.w[n] \in {"body", "done"} THEN 1 ELSE 0)
        /\ s.groupErrs[n] # Nil => s.w[n] = "done"
        /\ s.w[n] # "idle" =>
              \A d \in Range(deps[n]) :
                  s.w[d] = "done" /\ (d \in StrongDeps(n) => s.groupErrs[d] = Nil)
        /\ s.pc # "idle" =>
              s.indegree[n] = Len(deps[n]) - Cardinality({d \in Range(deps[n]) :
                  s.w[d] = "done" /\ (s.groupErrs[d] = Nil \/ d \in WeakDeps(n))})
    /\ s.pc = "returned" =>
        /\ s.err = leafError(s.groupErrs)
        /\ (\A n \in Nodes : s.groupErrs[n] = Nil) =>
              s.err = Nil /\ \A n \in Nodes : s.runs[n] = 1

\* C32: two Go calls running concurrently on one group each use their own
\* indegree counters and error slots: each call runs as a call running alone
\* does (every body once, in dependency order, when its bodies succeed) and
\* returns its own result; a step of one call leaves the other call's state
\* alone, and no call changes the nodes, keys, deps, to, weakTo or idxMap of the
\* group.
C32_ConcurrentGo ==
    /\ [](\A c \in TwoCalls : OwnRun(c))
    /\ [][/\ \A c \in TwoCalls : goCalls'[c] # goCalls[c] => goCalls'[3 - c] = goCalls[3 - c]
          /\ <<deps, to, weakTo, key, g>>' = <<deps, to, weakTo, key, g>>]_vars

\* both calls have returned, having started the bodies of three nodes in
\* different orders: one succeeded, the other returned an error
C32_Witness ==
    /\ \A c \in TwoCalls : goCalls[c].pc = "returned"
    /\ goCalls[1].err = Nil /\ Len(goCalls[1].order) = 3
    /\ goCalls[2].err # Nil /\ Len(goCalls[2].order) = 3
    /\ goCalls[1].order # goCalls[2].order

\* ---------------------------------------------------------------- C33, C37
\* the rollback loop is running after the group timeout while a worker is still
\* before its write of groupErrs
EarlyRollback ==
    /\ fine.pc = "rollback"
    /\ fine.err = GroupTimeoutErr
    /\ fine.ri > 0
    /\ \E n \in Nodes : CanWrite(n)

\* C33: groupErrs[i] is written at most once, by the worker of node i, and every
\* read of it (a successor's wrapError, leafError, the rollback loop) happens when
\* that worker can no longer write it, also when Go returns on the group timeout.
C33_AsStated ==
    /\ \A n \in Nodes : fine.writes[n] <= 1
    /\ fine.raced = {}

C33_Witness ==
    /\ EarlyRollback
    /\ \E n \in Nodes : fine.order[fine.ri] = n /\ fine.w[n] = "record"

\* C37: the tracker never holds more nodes than its capacity, each slot of order is
\* written at most once, and the rollback loop never reads a slot that is reserved
\* but not yet written, also when it starts after the group timeout.
C37_AsStated ==
    /\ fine.cnt <= rbCnt
    /\ \A i \in 1..rbCnt : fine.slotWrites[i] <= 1
    /\ ~fine.nilRead

C37_Witness ==
    /\ EarlyRollback
    /\ fine.order[fine.ri] = 0
    /\ \E n \in Nodes : fine.w[n] = "slot" /\ fine.at[n] = fine.ri

\* ---------------------------------------------------------------- C34
\* the errors the worker of a failed node n can have passed to wrapError
FailedWith(n) ==
    IF after[n] THEN {AfterErr(n), afterArg[n]} \ {Nil} ELSE {RawErr(n)}

\* the recorded errors of the failed direct dependencies of n, in deps order
FailedDeps(n) == NonNil([i \in 1..Len(deps[n]) |-> groupErrs[deps[n][i]]])

\* C34: the error recorded for a node that failed with err is err itself when no
\* direct dependency has a recorded error; otherwise its unwrap list is err
\* followed by the recorded errors of the failed direct dependencies in deps
\* order, and it prints as "err <- dep" for one of them and as
\* "err <- [e1 | e2 | ...]" for several.
C34_WrapError ==
    \A n \in Nodes : groupErrs[n] # Nil =>
        LET ups == FailedDeps(n)
            rec == groupErrs[n]
        IN IF ups = <<>>
           THEN rec \in FailedWith(n)
           ELSE /\ rec.tag = "group"
                /\ Head(Unwrap(rec)) \in FailedWith(n)
                /\ Tail(Unwrap(rec)) = ups
                /\ Error(rec) =
                     IF Len(ups) = 1
                     THEN Error(Head(Unwrap(rec))) \o <<Tok(" <- ")>> \o Error(ups[1])
                     ELSE Error(Head(Unwrap(rec))) \o <<Tok(" <- [")>>
                          \o Bars([i \in 1..Len(ups) |-> Error(ups[i])]) \o <<Tok("]")>>

\* a node recorded with two upstream errors, one of them itself a wrapped error
C34_Witness ==
    \E n \in Nodes :
        /\ groupErrs[n].tag = "group"
        /\ Len(groupErrs[n].upstreams) = 2
        /\ \E i \in 1..2 : groupErrs[n].upstreams[i].tag = "group"

\* ---------------------------------------------------------------- C35
\* C35: when eg.Wait has returned nil (no fast-fail failure, no cancellation seen,
\* no group timeout), the recorded error of every failed node is in the unwrap
\* tree of the error leafError returned.
C35_NoFailureLost ==
    (mainPc \in {"rollback", "after", "returned"} /\ Undisturbed) =>
        \A n \in Nodes : groupErrs[n] # Nil => Is(leafErr, groupErrs[n])

\* a failed node two failed successors away from the leaf that carries its error
C35_Witness ==
    /\ mainPc = "returned" /\ Undisturbed
    /\ \E n, m, l \in Nodes :
        /\ m \in Range(to[n]) /\ l \in Range(to[m]) /\ l \notin Range(to[n])
        /\ groupErrs[n] # Nil /\ groupErrs[m] # Nil /\ groupErrs[l] # Nil
        /\ leafErr = groupErrs[l]

\* ---------------------------------------------------------------- C36
\* the worker of p is at the entry of its notify list that stands for the edge to c
AtEdge(p, c) == pc[p] \in {"notify", "spawn"} /\ Notified(p)[nidx[p]] = c

\* a step changes the counter of c only by the decrement of one worker that is at
\* its edge to c and moves on, from a counter above zero
OncePerEdge ==
    \A c \in Nodes : (mainPc # "start" /\ indegree'[c] # indegree[c]) =>
        /\ indegree[c] > 0
        /\ indegree'[c] = indegree[c] - 1
        /\ \E p \in Range(deps[c]) :
            /\ pc[p] = "notify" /\ AtEdge(p, c)
            /\ IF indegree'[c] = 0
               THEN pc'[p] = "spawn" /\ nidx'[p] = nidx[p]
               ELSE pc'[p] = "done" \/ nidx'[p] = nidx[p] + 1

\* a step submits c only from idle: a root by the caller's root loop, any other
\* node by the worker that brought its counter to zero; the notify loop of a
\* worker is walked once, forwards
SubmittedOnce ==
    \A c \in Nodes :
        /\ pc'[c] = "idle" => pc[c] = "idle"
        /\ pc[c] = "done" => pc'[c] = "done"
        /\ pc'[c] = "notify" => pc[c] \in {"exec", "notify", "spawn"} /\ nidx'[c] >= nidx[c]
        /\ (pc'[c] = "entry" /\ pc[c] # "entry") =>
            /\ pc[c] = "idle"
            /\ IF c \in Roots
               THEN mainPc = "roots" /\ rootIdx = c
               ELSE indegree[c] = 0 /\ \E p \in Range(deps[c]) : pc[p] = "spawn" /\ AtEdge(p, c)

\* C36: every node is submitted to the pool at most once; a node's counter is
\* decremented at most once per dependency edge (a weak edge once), stays within
\* 0..len(deps) and never wraps; a node that is not a root is submitted exactly
\* when its counter reaches zero, by the worker that decremented it.
C36_SingleDispatch ==
    /\ [](mainPc # "start" =>
            \A n \in Nodes : /\ indegree[n] \in 0..Len(deps[n])
                             /\ (indegree[n] = 0 /\ n \notin Roots /\ pc[n] = "idle") =>
                                    \E p \in Range(deps[n]) : pc[p] = "spawn" /\ AtEdge(p, n))
    /\ [][OncePerEdge /\ SubmittedOnce]_vars

\* a node behind a weak edge from a node that succeeded and a second edge has been
\* submitted and has finished
C36_Witness ==
    \E n \in Nodes : \E p \in Range(deps[n]) :
        /\ Len(deps[n]) = 2
        /\ n \in Range(weakTo[p]) /\ groupErrs[p] = Nil
        /\ pc[n] = "done" /\ indegree[n] = 0

\* ---------------------------------------------------------------- C38
\* the caller is in the root loop, or a worker is about to submit a successor
Submitting == mainPc = "roots" \/ \E n \in Nodes : pc[n] = "spawn"

\* C38: without a configured limit (the limit is the number of nodes) no eg.Go
\* blocks, in the root loop or in a notify loop: the workers that hold a slot
\* and the node being submitted are never more than the number of nodes.
C38_DefaultLimit ==
    (Limit = 0 /\ Submitting) =>
        /\ CanSubmit
        /\ Cardinality(Active) + 1 <= NumNodes

\* a worker submits the last node while every other node holds a slot
C38_Witness ==
    /\ Limit = 0
    /\ \E n \in Nodes : pc[n] = "spawn"
    /\ Cardinality(Active) = NumNodes - 1

\* ---------------------------------------------------------------- C39
\* n is on a dependency cycle or depends on a node that is
Stuck(n) == OnCycle(n) \/ \E m \in DependsOn(n) : OnCycle(m)

\* C39: on a group with a dependency cycle Go returns when every task body
\* returns; the nodes on a cycle and the nodes that depend on them are never
\* dispatched; Go returns nil when no dispatched node failed.
C39_CyclicGo ==
    /\ [](\A n \in Nodes : Stuck(n) =>
            pc[n] = "idle" /\ body[n] = "idle" /\ runs[n] = 0 /\ groupErrs[n] = Nil)
    /\ []((mainPc = "returned" /\ \A n \in Nodes : bodyErr[n] = Nil) => err = Nil)
    /\ <>(mainPc = "returned")

\* Go has returned nil; a root ran, a node that depends on itself and a node
\* that depends on it did not
C39_Witness ==
    /\ mainPc = "returned" /\ err = Nil
    /\ \E r, n, m \in Nodes :
        /\ pc[r] = "done" /\ runs[r] = 1
        /\ OnCycle(n)
        /\ ~OnCycle(m) /\ n \in Range(deps[m]) /\ pc[m] = "idle"

\* ---------------------------------------------------------------- C40
\* the positions in eff of the Store calls on key k
StoresOn(k) == {j \in 1..Len(cow.eff) : cow.eff[j].key = k}

\* the value of the latest Store on k that took effect, NoValue when there is none
Latest(k) ==
    IF StoresOn(k) = {} THEN NoValue
    ELSE cow.eff[CHOOSE j \in StoresOn(k) : \A l \in StoresOn(k) : l <= j].val

\* C40: under every interleaving of Store and Load calls on one mapStore the
\* current map holds, for every key, the value of the latest Store on it that took
\* effect (no update is lost, entries of other keys stay); a Load of k called
\* after a Store on k returned gets that value or the value of a Store on k that
\* took effect later; a map a Load has loaded is not modified before it reads it.
C40_CopyOnWrite ==
    /\ \A k \in CowKeys : cow.heap[cow.ptr][k] = Latest(k)
    /\ cow.r.pc = "read" => cow.heap[cow.r.p] = cow.r.snap
    /\ (cow.r.pc = "got" /\ \E j \in StoresOn(cow.r.key) : j <= cow.r.must) =>
            /\ cow.r.got # NoValue
            /\ \E j \in StoresOn(cow.r.key) :
                /\ cow.eff[j].val = cow.r.got
                /\ \A l \in StoresOn(cow.r.key) : l <= cow.r.must => l <= j

\* a Load that loaded the map before two Stores took effect reads it afterwards,
\* after a CompareAndSwap of a writer has failed, while both keys are held
C40_Witness ==
    /\ cow.r.pc = "read"
    /\ cow.failed
    /\ Len(cow.eff) >= cow.r.must + 2
    /\ cow.r.must >= 1
    /\ \A k \in CowKeys : Latest(k) # NoValue

====
